---- MODULE Spec2Model ----
(***************************************************************************)
(* Browser agent control loop (chrome-extension/agent.js, BrowserAgent),   *)
(* its ProgressTracker and ExecutionOptimizer                              *)
(* (chrome-extension/task-status-integration-example.js) and the step      *)
(* budget of the TaskPlanner.                                              *)
(*                                                                         *)
(* JavaScript runs one callback to completion, so every action below is    *)
(* the code between two await points of run(): stop() and the completions  *)
(* of the awaited LLM / browser calls are the only interleavings.          *)
(*                                                                         *)
(* Abstractions: history, lastActions and lastObservations are kept as     *)
(* their lengths; the observation of a step is its base phrase (computed   *)
(* in the step) and the set of texts appended to it (kept in               *)
(* lastObservation); confidences are percentages; detectLoop's verdict on  *)
(* the action-key log is an input of the step (the keys come from the      *)
(* LLM), restricted to the result shapes the function returns and to what  *)
(* the log lengths, the action and the observation allow.  One of the five *)
(* loop keys is explored.  The optimizer's actionHistory, which no branch  *)
(* of run() reads, is not part of Spec; navigationHistory, which only      *)
(* detectLoop reads and writes, is followed in SpecLoop and stays as       *)
(* constructed in the other specifications.                                *)
(***************************************************************************)
EXTENDS Integers, Sequences, FiniteSets, TLC

(***************************************************************************)
(* Bounds of the model                                                     *)
(***************************************************************************)
MaxRuns == 2          \* run() invocations on one agent instance
MaxSubGoals == 2      \* sub-goals of a generated plan (the planner caps at 5)
MaxLoopCount == 4     \* counted loop detections explored on one agent instance
ConfigMaxSteps == 2   \* config.maxSteps the agent is constructed with
MaxTrackerGoals == 3  \* sub-goals of a stand-alone ProgressTracker
MaxRecorded == 10     \* recordStep calls per sub-goal on a stand-alone tracker
LongPlanGoals == 4    \* sub-goals of the long plan of SpecLongPlan
MaxOptimizerCalls == 6 \* method calls on a stand-alone ExecutionOptimizer
MaxPlanGoals == 6     \* length of a list handed to calculateStepBudget
MaxBudgetCalls == 3   \* calculateStepBudget calls on one list

(***************************************************************************)
(* Program constants                                                       *)
(***************************************************************************)
StuckThreshold == 8
MaxLastActions == 15
MaxNavigationHistory == 10
RecentWindow == 10
MaxLastObservations == 5
MaxActionHistory == 20
MaxRetries == 2

(***************************************************************************)
(* TaskPlanner: step budget and the plans generateSubGoals produces        *)
(***************************************************************************)
\* Faulty variant of CalculateStepBudget: the budget is the sum of the estimates
RECURSIVE SumEstimates(_)
SumEstimates(subGoals) ==
    IF subGoals = <<>> THEN 0
    ELSE subGoals[1].estimatedSteps + SumEstimates(Tail(subGoals))

BudgetFromEstimates(given, subGoals) ==
    IF ~given \/ Len(subGoals) <= 1 THEN 30 ELSE 10 * SumEstimates(subGoals)

\* calculateStepBudget(subGoals): given is false for a null or undefined list
CalculateStepBudget(given, subGoals) ==
    IF ~given \/ Len(subGoals) <= 1 THEN 30
    ELSE IF Len(subGoals) >= 2 /\ Len(subGoals) <= 3 THEN 50
    ELSE IF Len(subGoals) >= 4 /\ Len(subGoals) <= 5 THEN 80
    ELSE 50

\* steps allocated before sub-goal i: the floors of the earlier proportions
RECURSIVE AllocatedBefore(_, _, _, _)
AllocatedBefore(subGoals, i, budget, total) ==
    IF i <= 1 THEN 0
    ELSE AllocatedBefore(subGoals, i - 1, budget, total)
         + (budget * subGoals[i - 1].estimatedSteps) \div total

\* calculateStepBudget also rewrites every estimatedSteps of a list of two
\* or more: the proportional share, the rest for the last one, at least 1
AllocateSteps(given, subGoals) ==
    IF ~given \/ Len(subGoals) <= 1 THEN subGoals
    ELSE LET budget == CalculateStepBudget(given, subGoals)
             total == SumEstimates(subGoals)
             Share(i) == IF i = Len(subGoals)
                         THEN budget - AllocatedBefore(subGoals, i, budget, total)
                         ELSE (budget * subGoals[i].estimatedSteps) \div total
         IN [i \in 1..Len(subGoals) |->
               [subGoals[i] EXCEPT !.estimatedSteps = IF Share(i) < 1 THEN 1 ELSE Share(i)]]

\* One sub-goal as generateSubGoals creates it; criteria is the rule of
\* isSubGoalComplete its completionCriteria text selects.
SubGoal(i, crit) ==
    [id |-> i, criteria |-> crit, completed |-> FALSE, skipped |-> FALSE,
     skipReason |-> "none"]

GenericGoals(n) == [i \in 1..n |-> SubGoal(i, "generic")]

\* navigate-and-interact, and the sequence / generic plans of n steps
GenerateSubGoals ==
    { <<SubGoal(1, "navigate"), SubGoal(2, "generic")>> }
    \cup { GenericGoals(n) : n \in 1..MaxSubGoals }

\* analyzeTask: no sub-goals for a task that is not multi-step
AnalyzeTask ==
    { [subGoals |-> sg, stepBudget |-> CalculateStepBudget(TRUE, sg)] :
        sg \in {<<>>} \cup GenerateSubGoals }

(***************************************************************************)
(* ProgressTracker                                                         *)
(***************************************************************************)
NoTracker ==
    [exists |-> FALSE, subGoals |-> <<>>, currentSubGoalIndex |-> 0,
     subGoalStepCounts |-> <<>>]

NewProgressTracker(sg) ==
    [exists |-> TRUE, subGoals |-> sg, currentSubGoalIndex |-> 0,
     subGoalStepCounts |-> [i \in 1..Len(sg) |-> 0]]

\* the cursor is 0-based as in the code; sequences here are 1-based
HasCurrentSubGoal(t) == t.currentSubGoalIndex < Len(t.subGoals)

GetCurrentSubGoal(t) == t.subGoals[t.currentSubGoalIndex + 1]

\* Faulty variants of the tracker methods, used to see that the properties
\* below depend on the code: a threshold met at 8, a completion and a skip
\* that ignore the cursor
IsStuckAtThreshold(t) ==
    /\ t.currentSubGoalIndex < Len(t.subGoals)
    /\ t.subGoalStepCounts[t.currentSubGoalIndex + 1] >= StuckThreshold

CompleteAlwaysAdvancing(t) ==
    IF t.currentSubGoalIndex >= Len(t.subGoals)
    THEN [t EXCEPT !.currentSubGoalIndex = @ + 1]
    ELSE [t EXCEPT !.subGoals[t.currentSubGoalIndex + 1].completed = TRUE,
                   !.currentSubGoalIndex = @ + 1]

SkipWithoutAdvancing(t, reason) ==
    IF t.currentSubGoalIndex >= Len(t.subGoals) THEN t
    ELSE [t EXCEPT !.subGoals[t.currentSubGoalIndex + 1].skipped = TRUE,
                   !.subGoals[t.currentSubGoalIndex + 1].skipReason = reason]

\* Faulty variant of SkipCurrentSubGoal: every skip is recorded as a stuck skip
SkipAsStuck(t, reason) ==
    IF t.currentSubGoalIndex >= Len(t.subGoals) THEN t
    ELSE [t EXCEPT !.subGoals[t.currentSubGoalIndex + 1].skipped = TRUE,
                   !.subGoals[t.currentSubGoalIndex + 1].skipReason = "stuck",
                   !.currentSubGoalIndex = @ + 1]

RecordStep(t) ==
    IF t.currentSubGoalIndex >= Len(t.subGoals) THEN t
    ELSE [t EXCEPT !.subGoalStepCounts[t.currentSubGoalIndex + 1] = @ + 1]

\* Faulty variant of IsStuck: no sub-goal is ever stuck
NeverStuck(t) == FALSE

IsStuck(t) ==
    /\ t.currentSubGoalIndex < Len(t.subGoals)
    /\ t.subGoalStepCounts[t.currentSubGoalIndex + 1] > StuckThreshold

\* no current sub-goal: logs and returns; the catch block that still advances
\* the cursor runs only on an exception, and nothing in the try block throws
CompleteCurrentSubGoal(t) ==
    IF ~HasCurrentSubGoal(t) THEN t
    ELSE [t EXCEPT !.subGoals[t.currentSubGoalIndex + 1].completed = TRUE,
                   !.currentSubGoalIndex = @ + 1]

SkipCurrentSubGoal(t, reason) ==
    IF ~HasCurrentSubGoal(t) THEN t
    ELSE [t EXCEPT !.subGoals[t.currentSubGoalIndex + 1].skipped = TRUE,
                   !.subGoals[t.currentSubGoalIndex + 1].skipReason = reason,
                   !.currentSubGoalIndex = @ + 1]

IsComplete(t) == t.currentSubGoalIndex >= Len(t.subGoals)

CountWhere(sg, P(_)) == Cardinality({i \in 1..Len(sg) : P(sg[i])})

IsCompletedGoal(g) == g.completed
IsSkippedGoal(g) == g.skipped

GetSummary(t) ==
    [total |-> Len(t.subGoals),
     completed |-> CountWhere(t.subGoals, IsCompletedGoal),
     skipped |-> CountWhere(t.subGoals, IsSkippedGoal)]

(***************************************************************************)
(* ExecutionOptimizer                                                      *)
(***************************************************************************)
\* The counters run() depends on, and the failureRetries Map, which only
\* canRetry writes.  actionHistory and the snapshot cache, which run() never
\* reads, are part of NewOptimizerState.
NewExecutionOptimizer ==
    [consecutiveSnapshots |-> 0, getUrlCountPerSubGoal |-> 0, currentSubGoalId |-> 0,
     \* new Map(): no key has a retry count
     failureRetries |-> <<>>]

\* Faulty variant of ValidateAction: a third consecutive snapshot passes
ValidateActionAllowingThree(o, action) ==
    IF action = "snapshot" /\ o.consecutiveSnapshots > 2 THEN FALSE
    ELSE IF action = "getUrl" /\ o.getUrlCountPerSubGoal >= 1 THEN FALSE
    ELSE TRUE

\* Faulty variant of RecordAction: another action forgets the getUrl
RecordActionForgettingGetUrl(o, action) ==
    [o EXCEPT !.consecutiveSnapshots = IF action = "snapshot" THEN @ + 1 ELSE 0,
              !.getUrlCountPerSubGoal = IF action = "getUrl" THEN @ + 1 ELSE 0]

\* Faulty variant of ResetForSubGoal: the snapshot streak survives
ResetKeepingSnapshots(o, id) ==
    [o EXCEPT !.currentSubGoalId = id,
              !.getUrlCountPerSubGoal = 0]

\* Faulty variant of CanRetry: one attempt only
CanRetryOnce(o, key) == o.failureRetries[key] < 1

\* Rule 1: a third consecutive snapshot; Rule 2: a second getUrl in a sub-goal
ValidateAction(o, action) ==
    IF action = "snapshot" /\ o.consecutiveSnapshots >= 2 THEN FALSE
    ELSE IF action = "getUrl" /\ o.getUrlCountPerSubGoal >= 1 THEN FALSE
    ELSE TRUE

RecordAction(o, action) ==
    [o EXCEPT !.consecutiveSnapshots = IF action = "snapshot" THEN @ + 1 ELSE 0,
              !.getUrlCountPerSubGoal = IF action = "getUrl" THEN @ + 1 ELSE @]

ResetForSubGoal(o, id) ==
    [o EXCEPT !.currentSubGoalId = id,
              !.getUrlCountPerSubGoal = 0,
              !.consecutiveSnapshots = 0]

\* The whole optimizer, as SpecOptimizer drives it: the counters above, the
\* snapshot cache (whether one is cached, and for which sub-goal), the retry
\* counts per key action:JSON(args) and the recorded actions
RetryKeys == {"click:{\"ref\":1}", "click:{\"ref\":2}"}

NewOptimizerState ==
    [consecutiveSnapshots |-> 0, getUrlCountPerSubGoal |-> 0, currentSubGoalId |-> 0,
     snapshotCache |-> FALSE, cacheSubGoalId |-> 0,
     failureRetries |-> [k \in RetryKeys |-> 0],
     actionHistory |-> <<>>]

\* recordAction with its push to actionHistory, bounded to the last 20
RecordActionWithHistory(o, action) ==
    LET h == Append(o.actionHistory, action) IN
    [RecordAction(o, action) EXCEPT
        !.actionHistory = IF Len(h) > MaxActionHistory THEN Tail(h) ELSE h]

CacheSnapshot(o, id) == [o EXCEPT !.snapshotCache = TRUE, !.cacheSubGoalId = id]

ClearCache(o) == [o EXCEPT !.snapshotCache = FALSE, !.cacheSubGoalId = 0]

\* resetForSubGoal with its clearCache()
ResetForSubGoalWithCache(o, id) == ClearCache(ResetForSubGoal(o, id))

\* canRetry(action, args): the value returned, and the count it leaves
CanRetry(o, key) == o.failureRetries[key] < MaxRetries

CountRetry(o, key) == [o EXCEPT !.failureRetries[key] = @ + 1]

\* run(): "Reset ExecutionOptimizer for new sub-goal", only if there is one
ResetOptimizerForNext(o, t) ==
    IF HasCurrentSubGoal(t) THEN ResetForSubGoal(o, GetCurrentSubGoal(t).id) ELSE o

(***************************************************************************)
(* Actions the LLM may choose and what executing them returns              *)
(***************************************************************************)
\* parsed {action, args}; url is the kind of args.url, which only navigate reads
LLMResponses ==
    { [action |-> a, url |-> "none"] :
        a \in {"snapshot", "getUrl", "click", "wait", "finished", "unknown"} }
    \cup { [action |-> "navigate", url |-> u] : u \in {"string", "nonString"} }

NoAction == [action |-> "none", url |-> "none"]

Result(ok, tree, blocked, video, follow) ==
    [success |-> ok, tree |-> tree, validationFailed |-> blocked,
     videoOpened |-> video, followClicked |-> follow]

FailedResult == Result(FALSE, FALSE, FALSE, FALSE, FALSE)
OkResult == Result(TRUE, FALSE, FALSE, FALSE, FALSE)
ValidationFailedResult == Result(FALSE, FALSE, TRUE, FALSE, FALSE)

\* the results the switch of executeAction can produce for a validated action
ActionResults(p) ==
    CASE p.action = "snapshot" -> {Result(TRUE, TRUE, FALSE, FALSE, FALSE), FailedResult}
      [] p.action = "click" ->
            {OkResult, FailedResult, Result(TRUE, FALSE, FALSE, TRUE, FALSE),
             Result(TRUE, FALSE, FALSE, FALSE, TRUE)}
      [] p.action = "wait" -> {OkResult}
      [] p.action = "unknown" -> {FailedResult}
      [] OTHER -> {OkResult, FailedResult}

\* handleNavigate calls url.trim(): a truthy args.url that is no string raises
\* a TypeError that neither executeAction nor run catches
RaisesTypeError(p) == p.action = "navigate" /\ p.url = "nonString"

\* run(): "Build observation from execution result"
ObservationBase(action, r) ==
    IF action = "snapshot"
    THEN IF r.tree THEN "snapshotFound" ELSE "snapshotFailed"
    ELSE IF r.validationFailed THEN "actionBlocked"
    ELSE IF r.success = FALSE THEN "error"
    ELSE IF r.videoOpened THEN "videoOpened"
    ELSE IF r.followClicked THEN "followClicked"
    ELSE "json"

\* what of the base phrase lastObservation keeps: whether it carries the
\* optimizer's alternative ("Action blocked: <reason>\nSuggestion: <alternative>")
BaseNotes(base) == IF base = "actionBlocked" THEN {"suggestion"} ELSE {}

\* whether the lowercased observation contains "complete" or "success":
\* "Followed successfully!" and the JSON dump of a result with success:true do
MentionsCompletion(base) == base \in {"followClicked", "json"}

IsSubGoalComplete(goal, action, r, base) ==
    CASE goal.criteria = "search" -> action = "search" /\ r.success
      [] goal.criteria = "content" -> action \in {"getMarkdown", "getText"} /\ r.success
      [] goal.criteria = "navigate" -> action = "navigate" /\ r.success
      [] goal.criteria = "click" -> action = "click" /\ r.success
      [] OTHER -> MentionsCompletion(base)

(***************************************************************************)
(* detectLoop: the verdicts it can return after the current action         *)
(***************************************************************************)
\* loopKey = pattern || reason: every detected result carries one of these
LoopKeys ==
    {"sameActionDifferentArgs", "pageNavigation", "consecutiveSnapshots",
     "snapshotWaitPattern", "legacy"}

\* the loop keys explored in Spec
LoopPatterns == {"consecutiveSnapshots"}

LoopResult(det, pat, conf, prod, fin) ==
    [detected |-> det, pattern |-> pat, confidence |-> conf,
     productive |-> prod, canFinish |-> fin]

\* isProductiveIteration: a progress word in the observation or a completed
\* sub-goal force true; differing observations or distinct refs / URLs allow it
ProgressIndicator(base) == base \in {"snapshotFound", "videoOpened", "followClicked", "json"}

HasCompletedSubGoal(t) == t.exists /\ \E i \in 1..Len(t.subGoals) : t.subGoals[i].completed

IsProductiveIteration(action, base, nObs, t) ==
    IF ProgressIndicator(base) \/ HasCompletedSubGoal(t) THEN {TRUE}
    ELSE IF nObs >= 2 \/ action \in {"navigate", "click", "getMarkdown"} THEN {TRUE, FALSE}
    ELSE {FALSE}

\* Needed in the last ten log entries: four entries of one action (pattern 1),
\* four navigations (2), three trailing snapshots, waits aside (3), five
\* entries snapshot, wait, snapshot, wait, snapshot (4), three equal keys, two
\* getUrl, five snapshots or four waits (legacy)
DetectLoopShapes(action, base, nActions, nObs, t) ==
    LET prod == IsProductiveIteration(action, base, nObs, t) IN
      { LoopResult(TRUE, "sameActionDifferentArgs", IF pr THEN 50 ELSE 90, pr, FALSE) :
          pr \in {x \in prod : nActions >= 4} }
      \cup { LoopResult(TRUE, "pageNavigation", 95, FALSE, FALSE) : x \in {y \in {1} : nActions >= 4} }
      \cup { LoopResult(TRUE, "consecutiveSnapshots", IF pr THEN 60 ELSE 85, pr, FALSE) :
          pr \in {x \in prod : action \in {"snapshot", "wait"} /\ nActions >= 3} }
      \cup { LoopResult(TRUE, "snapshotWaitPattern", IF pr THEN 50 ELSE 80, pr, FALSE) :
          pr \in {x \in prod : nActions >= 5} }
      \cup { LoopResult(TRUE, "legacy", 100, FALSE, FALSE) : x \in {y \in {1} : nActions >= 3} }
      \cup { LoopResult(TRUE, "legacy", 90, FALSE, FALSE) : x \in {y \in {1} : nActions >= 2} }
      \cup { LoopResult(TRUE, "legacy", 85, pr, FALSE) : pr \in {x \in prod : nActions >= 5} }
      \cup { LoopResult(TRUE, "legacy", 70, pr, FALSE) : pr \in {x \in prod : nActions >= 4} }
      \cup { LoopResult(FALSE, "none", 0, FALSE, base = "videoOpened") }

\* the verdicts a specification explores: those of the keys in patterns
DetectLoopResults(patterns, action, base, nActions, nObs, t) ==
    { res \in DetectLoopShapes(action, base, nActions, nObs, t) :
        res.detected => res.pattern \in patterns }

\* run(): a detection is counted unless it looks productive with low confidence
IsCounted(res) == res.detected /\ ~(res.productive /\ res.confidence < 70)

\* the legacy checks keep no entry in loopDetectionState
NoLoopDetectionState == [exists |-> FALSE, detected |-> {}]

NoLoopDetectionCount == [k \in LoopKeys |-> 0]

RECURSIVE SumOver(_, _)
SumOver(f, S) ==
    IF S = {} THEN 0
    ELSE LET k == CHOOSE x \in S : TRUE IN f[k] + SumOver(f, S \ {k})

TotalDetections(c) == SumOver(c, LoopKeys)

(***************************************************************************)
(* BrowserAgent: state                                                     *)
(***************************************************************************)
VARIABLES
    pc,                 \* where run() is suspended: idle (not running), status, llm, exec
    runNo,              \* run() invocations so far on this agent
    plannerLoaded,      \* typeof TaskPlanner !== 'undefined'
    stopped, stepCount, maxSteps,
    history, lastActions, lastObservations,     \* lengths; SpecLoop: lastActions is the log itself
    navigationHistory,  \* followed in SpecLoop only
    lastObservation,    \* texts appended to the observation of the last step
    progressTracker, executionOptimizer,
    loopDetectionState, \* whether it is set, and the patterns whose detected flag is
    loopDetectionCount,
    parsed,             \* the action in flight
    runResult,          \* what the last run() returned or threw
    calls,              \* SpecTracker: recordStep calls made while sub-goal i was current;
                        \* SpecOptimizer, SpecPlanner: the calls made and what they returned
    plan                \* run(): the local plan; SpecPlanner: the plan being built

vars ==
    <<pc, runNo, plannerLoaded, navigationHistory, stopped, stepCount, maxSteps, history, lastActions,
      lastObservations, lastObservation, progressTracker, executionOptimizer,
      loopDetectionState, loopDetectionCount, parsed, runResult, calls, plan>>

NoPlan == [kind |-> "none", subGoals |-> <<>>, stepBudget |-> 0]

NoResult == [kind |-> "none", reason |-> "none", history |-> 0]

RunResult(kind, reason, h) == [kind |-> kind, reason |-> reason, history |-> h]

\* new BrowserAgent(config): maxSteps = config.maxSteps.  progressTracker,
\* lastObservations, loopDetectionState and loopDetectionCount are not assigned.
Init ==
    /\ pc = "idle"
    /\ runNo = 0
    /\ plannerLoaded \in BOOLEAN
    /\ stopped = FALSE
    /\ stepCount = 0
    /\ maxSteps = ConfigMaxSteps
    /\ history = 0
    /\ lastActions = 0
    /\ navigationHistory = <<>>
    /\ lastObservations = 0
    /\ lastObservation = {}
    /\ progressTracker = NoTracker
    /\ executionOptimizer = NewExecutionOptimizer
    /\ loopDetectionState = NoLoopDetectionState
    /\ loopDetectionCount = NoLoopDetectionCount
    /\ parsed = NoAction
    /\ runResult = NoResult
    /\ calls = <<>>
    /\ plan = NoPlan

(***************************************************************************)
(* run(): the code from one await to the next                              *)
(***************************************************************************)
\* return or throw out of run()
Return(kind, reason, h) ==
    /\ pc' = "idle"
    /\ parsed' = NoAction
    /\ runResult' = RunResult(kind, reason, h)

\* Faulty variant of LoopHead: the while condition without the step budget
LoopHeadIgnoringBudget(t, m, h) ==
    IF ~stopped
    THEN /\ stepCount' = stepCount + 1
         /\ IF t.exists /\ IsComplete(t)
            THEN Return("success", "allSubGoals", h)
            ELSE /\ pc' = "llm"
                 /\ parsed' = NoAction
                 /\ runResult' = runResult
    ELSE /\ stepCount' = stepCount
         /\ Return("stopped", "stopped", h)

\* From the while condition to the next await or return, for the tracker t,
\* budget m and history length h the step leaves behind.  validateTaskState
\* finds stepCount a non-negative number and returns true.
LoopHead(t, m, h) ==
    IF stepCount < m /\ ~stopped
    THEN /\ stepCount' = stepCount + 1
         /\ IF t.exists /\ IsComplete(t)
            THEN Return("success", "allSubGoals", h)
            ELSE /\ pc' = "llm"
                 /\ parsed' = NoAction
                 /\ runResult' = runResult
    ELSE /\ stepCount' = stepCount
         /\ IF stopped
            THEN Return("stopped", "stopped", h)
            ELSE Return("incomplete", "maxSteps", h)

\* run(userTask) up to the await of the initial sendTaskStatus
Run ==
    /\ pc = "idle"
    /\ runNo < MaxRuns
    /\ runNo' = runNo + 1
    /\ pc' = "status"
    /\ stopped' = FALSE
    /\ stepCount' = 0
    /\ history' = 0
    /\ lastActions' = 0
    /\ lastObservation' = {}
    /\ parsed' = NoAction
    /\ runResult' = NoResult
    /\ UNCHANGED <<plannerLoaded, navigationHistory, maxSteps, lastObservations, progressTracker,
                   executionOptimizer, loopDetectionState, loopDetectionCount, calls, plan>>

\* stop() while run() is suspended at an await; between runs it sets a flag
\* that the next run() clears before reading it
Stop ==
    /\ pc # "idle"
    /\ ~stopped
    /\ stopped' = TRUE
    /\ UNCHANGED <<pc, runNo, plannerLoaded, navigationHistory, stepCount, maxSteps, history, lastActions,
                   lastObservations, lastObservation, progressTracker, executionOptimizer,
                   loopDetectionState, loopDetectionCount, parsed, runResult, calls, plan>>

\* what the planning block leaves in maxSteps and progressTracker:
\* a valid plan, the catch block (analyzeTask threw), or no TaskPlanner
PlanOutcomes ==
    { [kind |-> "plan", subGoals |-> pl.subGoals, stepBudget |-> pl.stepBudget] :
        pl \in AnalyzeTask }
    \cup { [kind |-> "fallback", subGoals |-> <<>>, stepBudget |-> 30] }

PlannedMaxSteps(o) ==
    IF plannerLoaded /\ o.kind = "plan" /\ o.stepBudget > 0 THEN o.stepBudget ELSE maxSteps

PlannedTracker(o) ==
    IF ~plannerLoaded THEN progressTracker
    ELSE IF o.kind = "fallback" THEN NoTracker
    ELSE IF Len(o.subGoals) > 0 THEN NewProgressTracker(o.subGoals)
    ELSE progressTracker

\* the initial sendTaskStatus resolves: planning, then the first loop condition
StatusReturnsWith(outcomes) ==
    /\ pc = "status"
    /\ \E o \in outcomes :
         /\ maxSteps' = PlannedMaxSteps(o)
         /\ progressTracker' = PlannedTracker(o)
         /\ plan' = IF plannerLoaded THEN o ELSE NoPlan
         /\ LoopHead(PlannedTracker(o), PlannedMaxSteps(o), history)
    /\ UNCHANGED <<runNo, plannerLoaded, navigationHistory, stopped, history, lastActions, lastObservations,
                   lastObservation, executionOptimizer, loopDetectionState,
                   loopDetectionCount, calls>>

StatusReturns == StatusReturnsWith(PlanOutcomes)

\* callLLM resolves; parseResponse never throws.  A stop() that arrived
\* meanwhile breaks out of the loop; otherwise the step is pushed to history
\* and executeAction starts (its own stopped check is then false).
LLMReturnsWith(responses) ==
    /\ pc = "llm"
    /\ IF stopped
       THEN /\ Return("stopped", "stopped", history)
            /\ UNCHANGED history
       ELSE /\ \E p \in responses : parsed' = p
            /\ history' = history + 1
            /\ pc' = "exec"
            /\ runResult' = runResult
    /\ UNCHANGED <<runNo, plannerLoaded, navigationHistory, stopped, stepCount, maxSteps, lastActions,
                   lastObservations, lastObservation, progressTracker, executionOptimizer,
                   loopDetectionState, loopDetectionCount, calls, plan>>

LLMReturns == LLMReturnsWith(LLMResponses)

\* Faulty variant of LLMFails: the failure is swallowed and the loop goes on
LLMFailsContinuing ==
    /\ pc = "llm"
    /\ LoopHead(progressTracker, maxSteps, history)
    /\ UNCHANGED <<runNo, plannerLoaded, navigationHistory, stopped, maxSteps, history, lastActions,
                   lastObservations, lastObservation, progressTracker, executionOptimizer,
                   loopDetectionState, loopDetectionCount, calls, plan>>

\* callLLM throws (no API key, API error, network failure)
LLMFails ==
    /\ pc = "llm"
    /\ IF stopped
       THEN Return("stopped", "stopped", history)
       ELSE Return("error", "llmError", history)
    /\ UNCHANGED <<runNo, plannerLoaded, navigationHistory, stopped, stepCount, maxSteps, history, lastActions,
                   lastObservations, lastObservation, progressTracker, executionOptimizer,
                   loopDetectionState, loopDetectionCount, calls, plan>>

\* handleNavigate throws inside executeAction: run() rejects
ExecThrows ==
    /\ pc = "exec"
    /\ RaisesTypeError(parsed)
    /\ Return("exception", "typeError", history)
    /\ UNCHANGED <<runNo, plannerLoaded, navigationHistory, stopped, stepCount, maxSteps, history, lastActions,
                   lastObservations, lastObservation, progressTracker, executionOptimizer,
                   loopDetectionState, loopDetectionCount, calls, plan>>

\* what executeAction leaves in the optimizer: a blocked action returns
\* before the switch, finished returns out of it, the others are recorded
OptimizerAfterAction(o, action) ==
    IF ~ValidateAction(o, action) \/ action = "finished" THEN o
    ELSE RecordAction(o, action)

\* executeAction resolves after a stop(): the stopped check precedes the done check
ExecStopped ==
    /\ pc = "exec"
    /\ ~RaisesTypeError(parsed)
    /\ stopped
    /\ executionOptimizer' = OptimizerAfterAction(executionOptimizer, parsed.action)
    /\ Return("stopped", "stopped", history)
    /\ UNCHANGED <<runNo, plannerLoaded, navigationHistory, stopped, stepCount, maxSteps, history, lastActions,
                   lastObservations, lastObservation, progressTracker,
                   loopDetectionState, loopDetectionCount, calls, plan>>

\* finished resolves with done: the task result is returned
ExecFinished ==
    /\ pc = "exec"
    /\ ~stopped
    /\ parsed.action = "finished"
    /\ Return("success", "finished", history)
    /\ UNCHANGED <<runNo, plannerLoaded, navigationHistory, stopped, stepCount, maxSteps, history, lastActions,
                   lastObservations, lastObservation, progressTracker, executionOptimizer,
                   loopDetectionState, loopDetectionCount, calls, plan>>

\* Faulty variant of EscalationNotes: the imperative text from the first detection
EscalationNotesFromFirst(n, goal, t) ==
    {"imperative"}
    \cup (IF goal THEN {"skipOptions"} ELSE {"finishOrDifferent"})
    \cup (IF goal /\ n >= 3 THEN {"autoSkipped"} ELSE {})

\* texts the escalation block appends for a counted detection that brings the
\* key's count to n; goal: currentSubGoal && progressTracker && !isComplete()
EscalationNotes(n, goal, t) ==
    IF n >= 2
    THEN {"imperative"}
         \cup (IF goal THEN {"skipOptions"} ELSE {"finishOrDifferent"})
         \cup (IF goal /\ n >= 3
               THEN {"autoSkipped"}
                    \cup (IF IsComplete(SkipCurrentSubGoal(t, "loop"))
                          THEN {"allProcessed"} ELSE {"nowWorkingOn"})
               ELSE {})
    ELSE {"advisory"}

\* executeAction resolves with done:false: the rest of the iteration.
\* A repeated-action warning would need four log entries of the action among
\* the last ten, and detectLoop reports a loop for every such log.
ExecReturnsWith(patterns) ==
    /\ pc = "exec"
    /\ ~stopped
    /\ parsed.action # "finished"
    /\ ~RaisesTypeError(parsed)
    /\ LET o == executionOptimizer
           t == progressTracker
           blocked == ~ValidateAction(o, parsed.action)
           o1 == OptimizerAfterAction(o, parsed.action)
           nObs == IF lastObservations < MaxLastObservations
                   THEN lastObservations + 1 ELSE MaxLastObservations
           nActions == IF lastActions < MaxLastActions
                       THEN lastActions + 1 ELSE MaxLastActions
           hadGoal == t.exists /\ HasCurrentSubGoal(t)
           t1 == IF hadGoal THEN RecordStep(t) ELSE t
       IN
       \E r \in (IF blocked THEN {ValidationFailedResult} ELSE ActionResults(parsed)) :
         LET base == ObservationBase(parsed.action, r)
             completes == hadGoal /\ IsSubGoalComplete(GetCurrentSubGoal(t), parsed.action, r, base)
             t2 == IF completes THEN CompleteCurrentSubGoal(t1) ELSE t1
             o2 == IF completes THEN ResetOptimizerForNext(o1, t2) ELSE o1
         IN
         /\ lastObservations' = nObs
         /\ IF completes /\ IsComplete(t2)
            THEN \* all sub-goals are now complete
                 /\ progressTracker' = t2
                 /\ executionOptimizer' = o2
                 /\ lastObservation' = {}
                 /\ Return("success", "allSubGoals", history)
                 /\ UNCHANGED <<stepCount, lastActions, loopDetectionState, loopDetectionCount>>
            ELSE IF hadGoal /\ IsStuck(t2)
            THEN \* stuck: skip, reset the optimizer, continue
                 LET t3 == SkipCurrentSubGoal(t2, "stuck") IN
                 /\ progressTracker' = t3
                 /\ executionOptimizer' = ResetOptimizerForNext(o2, t3)
                 /\ lastObservation' = BaseNotes(base) \cup {"stuck"}
                 /\ LoopHead(t3, maxSteps, history)
                 /\ UNCHANGED <<lastActions, loopDetectionState, loopDetectionCount>>
            ELSE \* detectLoop and the escalation
                 \E res \in DetectLoopResults(patterns, parsed.action, base, nActions, nObs, t2) :
                   LET counted == IsCounted(res)
                       n == IF counted THEN loopDetectionCount[res.pattern] + 1 ELSE 0
                       goal == hadGoal /\ ~IsComplete(t2)
                       t4 == IF counted /\ goal /\ n >= 3
                             THEN SkipCurrentSubGoal(t2, res.pattern) ELSE t2
                   IN
                   /\ counted => TotalDetections(loopDetectionCount) < MaxLoopCount
                   /\ lastActions' = nActions
                   /\ loopDetectionState' =
                        [exists |-> TRUE,
                         detected |-> loopDetectionState.detected
                                      \cup (IF res.detected /\ res.pattern # "legacy"
                                            THEN {res.pattern} ELSE {})]
                   /\ loopDetectionCount' =
                        IF counted THEN [loopDetectionCount EXCEPT ![res.pattern] = n]
                        ELSE loopDetectionCount
                   /\ lastObservation' =
                        BaseNotes(base)
                        \cup (IF res.canFinish /\ parsed.action \in {"click", "snapshot", "getMarkdown"}
                               THEN {"canFinish"} ELSE {})
                        \cup (IF counted THEN EscalationNotes(n, goal, t2) ELSE {})
                   /\ progressTracker' = t4
                   /\ executionOptimizer' = o2
                   /\ LoopHead(t4, maxSteps, history)
    /\ UNCHANGED <<runNo, plannerLoaded, navigationHistory, stopped, maxSteps, history, calls, plan>>

ExecReturns == ExecReturnsWith(LoopPatterns)

Next ==
    \/ Run
    \/ Stop
    \/ StatusReturns
    \/ LLMReturns
    \/ LLMFails
    \/ ExecThrows
    \/ ExecStopped
    \/ ExecFinished
    \/ ExecReturns

Spec == Init /\ [][Next]_vars

(***************************************************************************)
(* A ProgressTracker driven directly through its methods                   *)
(***************************************************************************)
agentVars ==
    <<pc, runNo, plannerLoaded, navigationHistory, stopped, stepCount, maxSteps, history, lastActions,
      lastObservations, lastObservation, executionOptimizer, loopDetectionState,
      loopDetectionCount, parsed, runResult, plan>>

\* new ProgressTracker(subGoals) for every number of sub-goals up to the bound
InitTracker ==
    /\ pc = "idle"
    /\ runNo = 0
    /\ plannerLoaded = TRUE
    /\ stopped = FALSE
    /\ stepCount = 0
    /\ maxSteps = ConfigMaxSteps
    /\ history = 0
    /\ lastActions = 0
    /\ navigationHistory = <<>>
    /\ lastObservations = 0
    /\ lastObservation = {}
    /\ executionOptimizer = NewExecutionOptimizer
    /\ loopDetectionState = NoLoopDetectionState
    /\ loopDetectionCount = NoLoopDetectionCount
    /\ parsed = NoAction
    /\ runResult = NoResult
    /\ plan = NoPlan
    /\ \E n \in 0..MaxTrackerGoals :
         /\ progressTracker = NewProgressTracker(GenericGoals(n))
         /\ calls = [i \in 1..n |-> 0]

\* tracker.recordStep()
TrackerRecordStep ==
    /\ HasCurrentSubGoal(progressTracker) =>
         calls[progressTracker.currentSubGoalIndex + 1] < MaxRecorded
    /\ progressTracker' = RecordStep(progressTracker)
    /\ calls' = IF HasCurrentSubGoal(progressTracker)
                THEN [calls EXCEPT ![progressTracker.currentSubGoalIndex + 1] = @ + 1]
                ELSE calls
    /\ UNCHANGED agentVars

\* tracker.completeCurrentSubGoal(result)
TrackerComplete ==
    /\ progressTracker' = CompleteCurrentSubGoal(progressTracker)
    /\ UNCHANGED <<agentVars, calls>>

\* tracker.skipCurrentSubGoal(reason)
TrackerSkip ==
    /\ progressTracker' = SkipCurrentSubGoal(progressTracker, "stuck")
    /\ UNCHANGED <<agentVars, calls>>

NextTracker ==
    \/ TrackerRecordStep
    \/ TrackerComplete
    \/ TrackerSkip

SpecTracker == InitTracker /\ [][NextTracker]_vars

(***************************************************************************)
(* An ExecutionOptimizer driven directly through its methods; calls is the *)
(* sequence of the calls made, each with its argument and what it returned *)
(***************************************************************************)
nonOptimizerVars ==
    <<pc, runNo, plannerLoaded, navigationHistory, stopped, stepCount, maxSteps, history, lastActions,
      lastObservations, lastObservation, progressTracker, loopDetectionState,
      loopDetectionCount, parsed, runResult, plan>>

OptimizerActions == {"snapshot", "getUrl", "click"}

\* the actions validateAction has a rule for; every other action is valid
BlockableActions == {"snapshot", "getUrl"}

Call(op, arg, id, ret) == [op |-> op, arg |-> arg, id |-> id, ret |-> ret]

\* new ExecutionOptimizer()
InitOptimizer ==
    /\ pc = "idle"
    /\ runNo = 0
    /\ plannerLoaded = TRUE
    /\ stopped = FALSE
    /\ stepCount = 0
    /\ maxSteps = ConfigMaxSteps
    /\ history = 0
    /\ lastActions = 0
    /\ navigationHistory = <<>>
    /\ lastObservations = 0
    /\ lastObservation = {}
    /\ progressTracker = NoTracker
    /\ loopDetectionState = NoLoopDetectionState
    /\ loopDetectionCount = NoLoopDetectionCount
    /\ parsed = NoAction
    /\ runResult = NoResult
    /\ plan = NoPlan
    /\ executionOptimizer = NewOptimizerState
    /\ calls = <<>>

\* optimizer.validateAction(action, args, currentSubGoal)
OptimizerValidate ==
    /\ Len(calls) < MaxOptimizerCalls
    /\ \E a \in BlockableActions :
         calls' = Append(calls, Call("validateAction", a, 0,
                                     ValidateAction(executionOptimizer, a)))
    /\ UNCHANGED <<nonOptimizerVars, executionOptimizer>>

\* optimizer.recordAction(action, args, result)
OptimizerRecord ==
    /\ Len(calls) < MaxOptimizerCalls
    /\ \E a \in OptimizerActions :
         /\ executionOptimizer' = RecordActionWithHistory(executionOptimizer, a)
         /\ calls' = Append(calls, Call("recordAction", a, 0, TRUE))
    /\ UNCHANGED nonOptimizerVars

\* optimizer.resetForSubGoal(subGoalId)
OptimizerReset ==
    /\ Len(calls) < MaxOptimizerCalls
    /\ \E id \in 1..2 :
         /\ executionOptimizer' = ResetForSubGoalWithCache(executionOptimizer, id)
         /\ calls' = Append(calls, Call("resetForSubGoal", "none", id, TRUE))
    /\ UNCHANGED nonOptimizerVars

\* optimizer.cacheSnapshot(subGoalId, snapshot)
OptimizerCacheSnapshot ==
    /\ Len(calls) < MaxOptimizerCalls
    /\ executionOptimizer' = CacheSnapshot(executionOptimizer, 1)
    /\ calls' = Append(calls, Call("cacheSnapshot", "none", 1, TRUE))
    /\ UNCHANGED nonOptimizerVars

\* optimizer.canRetry(action, args)
OptimizerCanRetry ==
    /\ Len(calls) < MaxOptimizerCalls
    /\ \E k \in RetryKeys :
         /\ executionOptimizer' = CountRetry(executionOptimizer, k)
         /\ calls' = Append(calls, Call("canRetry", k, 0, CanRetry(executionOptimizer, k)))
    /\ UNCHANGED nonOptimizerVars

NextOptimizer ==
    \/ OptimizerValidate
    \/ OptimizerRecord
    \/ OptimizerReset
    \/ OptimizerCacheSnapshot
    \/ OptimizerCanRetry

SpecOptimizer == InitOptimizer /\ [][NextOptimizer]_vars

(***************************************************************************)
(* TaskPlanner.calculateStepBudget called repeatedly on one list: plan     *)
(* holds the list (kind "missing": no list) and the budget last returned,  *)
(* calls the budgets returned so far                                       *)
(***************************************************************************)
nonPlannerVars ==
    <<pc, runNo, plannerLoaded, navigationHistory, stopped, stepCount, maxSteps, history, lastActions,
      lastObservations, lastObservation, progressTracker, executionOptimizer,
      loopDetectionState, loopDetectionCount, parsed, runResult>>

\* estimatedSteps as generateSubGoals assigns them
InitialEstimates == {2, 3}

EstimatedGoals(n) ==
    { [i \in 1..n |-> [id |-> i, estimatedSteps |-> e[i]]] :
        e \in [1..n -> InitialEstimates] }

InitPlanner ==
    /\ pc = "idle"
    /\ runNo = 0
    /\ plannerLoaded = TRUE
    /\ stopped = FALSE
    /\ stepCount = 0
    /\ maxSteps = ConfigMaxSteps
    /\ history = 0
    /\ lastActions = 0
    /\ navigationHistory = <<>>
    /\ lastObservations = 0
    /\ lastObservation = {}
    /\ progressTracker = NoTracker
    /\ executionOptimizer = NewExecutionOptimizer
    /\ loopDetectionState = NoLoopDetectionState
    /\ loopDetectionCount = NoLoopDetectionCount
    /\ parsed = NoAction
    /\ runResult = NoResult
    /\ calls = <<>>
    /\ \/ plan = [kind |-> "missing", subGoals |-> <<>>, stepBudget |-> 0]
       \/ \E n \in 0..MaxPlanGoals : \E sg \in EstimatedGoals(n) :
            plan = [kind |-> "plan", subGoals |-> sg, stepBudget |-> 0]

\* stepBudget = TaskPlanner.calculateStepBudget(subGoals)
PlannerCalculate ==
    /\ Len(calls) < MaxBudgetCalls
    /\ LET given == plan.kind # "missing" IN
         /\ plan' = [plan EXCEPT
                        !.subGoals = AllocateSteps(given, plan.subGoals),
                        !.stepBudget = CalculateStepBudget(given, plan.subGoals)]
         /\ calls' = Append(calls, CalculateStepBudget(given, plan.subGoals))
    /\ UNCHANGED nonPlannerVars

NextPlanner == PlannerCalculate

SpecPlanner == InitPlanner /\ [][NextPlanner]_vars

(***************************************************************************)
(* TaskPlanner.analyzeTask on one task.  A task text is the set of the     *)
(* vocabulary words written in it, the number of parts the sequence        *)
(* connectives split it into and the number of its comma-separated parts;  *)
(* String.includes(kw) holds when a word of the text contains kw.  The     *)
(* advisory fields pattern and heuristic of the plan are left out.         *)
(***************************************************************************)
\* keyword pairs <<w, kw>> with kw a proper substring of w
SubstringPairs ==
    { <<"find out", "find">>, <<"tell me", "tell">>, <<"show me", "show">>,
      <<"search for", "search">>, <<"get the", "get">>,
      <<"navigate to", "navigate">> }

Contains(w, kw) == w = kw \/ <<w, kw>> \in SubstringPairs

\* lowerTask.includes(kw)
Includes(task, kw) == \E w \in task.words : Contains(w, kw)

\* keywords.some(kw => lowerTask.includes(kw))
IncludesSome(task, keywords) == \E kw \in keywords : Includes(task, kw)

IsString(task) == task.kind \in {"text", "empty"}

\* !task
Falsy(task) == task.kind \in {"empty", "null"}

\* Faulty variant of RejectsTask: only the falsy inputs are turned away
RejectsFalsyOnly(task) == Falsy(task)

\* the guard `!task || typeof task !== 'string'` that opens classifyTask,
\* isMultiStep, generateSubGoals and identifyTaskPattern
RejectsTask(task) == Falsy(task) \/ ~IsString(task)

\* task.toLowerCase() raises a TypeError on a value that is not a string
LowerCaseRaises(task) == ~IsString(task)

IsMultiStep(task) ==
    IF RejectsTask(task) THEN FALSE
    ELSE LET hasSequenceKeyword ==
                 IncludesSome(task, {"and", "then", "after", "next", "followed by"})
             hasExtractionKeyword ==
                 IncludesSome(task, {"tell me", "what is", "find out", "show me",
                                     "extract", "get the"})
             verbMatches ==
                 { verb \in {"search", "find", "open", "click", "navigate", "go to",
                             "extract", "get", "tell", "show"} : Includes(task, verb) }
         IN \/ hasSequenceKeyword
            \/ (hasExtractionKeyword /\ Cardinality(verbMatches) >= 1)
            \/ Cardinality(verbMatches) >= 2

ClassifyTask(task) ==
    IF RejectsTask(task) THEN "composite"
    ELSE LET isNavigation ==
                 IncludesSome(task, {"open", "go to", "visit", "navigate to", "navigate"})
             isSearch == IncludesSome(task, {"search", "find", "look for", "search for"})
             isExtraction ==
                 IncludesSome(task, {"tell me", "what is", "extract", "get the",
                                     "show me", "find out"})
             isInteraction ==
                 IncludesSome(task, {"click", "fill", "submit", "select", "type", "enter"})
             matchCount ==
                 Cardinality({ c \in {"navigation", "search", "content_extraction",
                                      "interaction"} :
                                 \/ c = "navigation" /\ isNavigation
                                 \/ c = "search" /\ isSearch
                                 \/ c = "content_extraction" /\ isExtraction
                                 \/ c = "interaction" /\ isInteraction })
         IN IF matchCount > 1 THEN "composite"
            ELSE IF isNavigation THEN "navigation"
            ELSE IF isSearch THEN "search"
            ELSE IF isExtraction THEN "content_extraction"
            ELSE IF isInteraction THEN "interaction"
            ELSE "composite"

IsSearchAndExtract(task) ==
    /\ IncludesSome(task, {"search", "find", "look for"})
    /\ IncludesSome(task, {"tell me", "show me", "show", "extract", "get the",
                           "what is", "about"})

IsNavigateAndInteract(task) ==
    /\ IncludesSome(task, {"open", "go to", "visit", "navigate"})
    /\ IncludesSome(task, {"click", "fill", "submit", "select", "type"})

HasSequenceKeywords(task) ==
    IncludesSome(task, {"then", "after", "next", "followed by"})

\* a sub-goal as generateSubGoals pushes it
PlannedGoal(i, type, steps) ==
    [id |-> i, type |-> type, estimatedSteps |-> steps, completed |-> FALSE]

SearchAndExtractGoals ==
    << PlannedGoal(1, "search", 3), PlannedGoal(2, "content_extraction", 5) >>

NavigateAndInteractGoals ==
    << PlannedGoal(1, "navigation", 2), PlannedGoal(2, "interaction", 3) >>

\* one sub-goal per part of _extractSequenceSteps, at most 5; "inferred" is
\* the type _inferComponentType reads from the part's own text
SequenceGoals(task) ==
    [i \in 1..(IF task.seqParts >= 5 THEN 5 ELSE task.seqParts) |->
       PlannedGoal(i, "inferred", 3)]

\* _splitTaskComponents: the test `task.substr(i, 4).toLowerCase() === ' and '`
\* compares four characters with five and never holds, so a text is one
\* part and the comma-separated parts are returned
SplitTaskComponents(task) == task.commaParts

\* one sub-goal per component, at most 5; two synthesized ones of the
\* task's category when fewer than 2 result
GenericSplitGoals(task, category) ==
    LET n == SplitTaskComponents(task) IN
    IF n < 2
    THEN << PlannedGoal(1, category, 4), PlannedGoal(2, category, 4) >>
    ELSE [i \in 1..(IF n >= 5 THEN 5 ELSE n) |-> PlannedGoal(i, "inferred", 3)]

\* Faulty variant of GenerateSubGoalsFor: the sequence strategy is tried first
GenerateSubGoalsSequenceFirst(task, category) ==
    IF RejectsTask(task) THEN <<>>
    ELSE IF HasSequenceKeywords(task) THEN SequenceGoals(task)
    ELSE IF IsSearchAndExtract(task) THEN SearchAndExtractGoals
    ELSE IF IsNavigateAndInteract(task) THEN NavigateAndInteractGoals
    ELSE GenericSplitGoals(task, category)

\* generateSubGoals(task, category): the first strategy that matches
GenerateSubGoalsFor(task, category) ==
    IF RejectsTask(task) THEN <<>>
    ELSE IF IsSearchAndExtract(task) THEN SearchAndExtractGoals
    ELSE IF IsNavigateAndInteract(task) THEN NavigateAndInteractGoals
    ELSE IF HasSequenceKeywords(task) THEN SequenceGoals(task)
    ELSE GenericSplitGoals(task, category)

\* analyzeTask(task): raised tells that a non-string reached toLowerCase()
\* in classifyTask, isMultiStep or identifyTaskPattern, or in
\* generateSubGoals when the task is multi-step
AnalyzeTaskOf(task) ==
    LET category == ClassifyTask(task)
        isMulti == IsMultiStep(task)
        subGoals == IF isMulti THEN GenerateSubGoalsFor(task, category) ELSE <<>>
    IN [raised     |-> ~RejectsTask(task) /\ LowerCaseRaises(task),
        category   |-> category,
        subGoals   |-> AllocateSteps(TRUE, subGoals),
        stepBudget |-> CalculateStepBudget(TRUE, subGoals)]

\* the words a task text is written with
TaskWords ==
    { "search", "find out", "tell me", "about", "show", "open", "visit",
      "click", "fill", "then", "and" }

MaxParts == 6

\* a non-empty text, the empty string, null, and a value that is
\* neither falsy nor a string
Tasks ==
    { [kind |-> "text", words |-> w, seqParts |-> s, commaParts |-> c] :
        w \in SUBSET TaskWords, s \in 1..MaxParts, c \in 1..MaxParts }
    \cup { [kind |-> k, words |-> {}, seqParts |-> 1, commaParts |-> 1] :
             k \in {"empty", "null", "number"} }

InitAnalyze ==
    /\ pc = "idle"
    /\ runNo = 0
    /\ plannerLoaded = TRUE
    /\ stopped = FALSE
    /\ stepCount = 0
    /\ maxSteps = ConfigMaxSteps
    /\ history = 0
    /\ lastActions = 0
    /\ navigationHistory = <<>>
    /\ lastObservations = 0
    /\ lastObservation = {}
    /\ progressTracker = NoTracker
    /\ executionOptimizer = NewExecutionOptimizer
    /\ loopDetectionState = NoLoopDetectionState
    /\ loopDetectionCount = NoLoopDetectionCount
    /\ parsed = NoAction
    /\ runResult = NoResult
    /\ calls = <<>>
    /\ \E task \in Tasks :
         \* the connectives split only a text that holds one
         /\ task.seqParts > 1 => HasSequenceKeywords(task)
         /\ plan = [kind |-> "task", task |-> task]

\* plan = TaskPlanner.analyzeTask(task)
PlannerAnalyze ==
    /\ plan.kind = "task"
    /\ plan' = [kind |-> "analyzed", task |-> plan.task,
                result |-> AnalyzeTaskOf(plan.task)]
    /\ calls' = Append(calls, "analyzeTask")
    /\ UNCHANGED nonPlannerVars

NextAnalyze == PlannerAnalyze

SpecAnalyze == InitAnalyze /\ [][NextAnalyze]_vars

(***************************************************************************)
(* BrowserAgent.detectLoop called on its own, on a fresh agent.            *)
(* lastActions and navigationHistory are the logs themselves; an action    *)
(* key is the action name and the JSON text of its args (for navigate: the *)
(* URL).  What isProductiveIteration reads of the rest of the agent comes  *)
(* with each call: the observation passed, whether the last two entries of *)
(* lastObservations differ and whether the tracker holds a completed       *)
(* sub-goal.  calls holds the number of calls made and the latest result.  *)
(***************************************************************************)
nonLoopVars ==
    <<pc, runNo, plannerLoaded, stopped, stepCount, maxSteps, history,
      lastObservations, lastObservation, progressTracker, executionOptimizer,
      loopDetectionCount, parsed, runResult, plan>>

Key(action, args) == [action |-> action, args |-> args]

\* Faulty variant of Push: nothing is dropped
PushWithoutShift(log, x, cap) == Append(log, x)

\* log.push(x); if (log.length > cap) log.shift()
Push(log, x, cap) ==
    LET pushed == Append(log, x) IN
    IF Len(pushed) > cap THEN Tail(pushed) ELSE pushed

\* log.slice(-n)
Slice(log, n) ==
    SubSeq(log, IF Len(log) > n THEN Len(log) - n + 1 ELSE 1, Len(log))

Range(log) == { log[i] : i \in DOMAIN log }

LogAfter(log, key) == Push(log, key, MaxLastActions)

\* only a navigate with a URL is kept
NavigationAfter(urls, key) ==
    IF key.action = "navigate" /\ key.args # "{}"
    THEN Push(urls, key.args, MaxNavigationHistory)
    ELSE urls

\* observations that contain one of the progressIndicators: "Video opened"
\* contains "opened"
ProgressObservations == {"loaded", "videoOpened"}

\* isProductiveIteration(action, args, observation, recentActions), urls
\* being navigationHistory with the call's URL pushed.  The distinct-refs
\* tests of getText, getMarkdown and click read keys of those actions only.
IsProductive(key, urls, env) ==
    \/ env.observationsDiffer
    \/ /\ key.action = "navigate"
       /\ urls # <<>>
       /\ Cardinality(Range(Slice(urls, 3))) = Len(Slice(urls, 3))
    \/ env.observation \in ProgressObservations
    \/ env.subGoalCompleted

LoopVerdict(det, pat, conf, count, prod, fin) ==
    [detected |-> det, pattern |-> pat, confidence |-> conf, count |-> count,
     productive |-> prod, canFinish |-> fin]

\* { detected: false } and { detected: false, canFinish: true }
NotDetected(fin) == LoopVerdict(FALSE, "none", 0, 0, FALSE, fin)

\* Faulty variant of ConsecutiveSnapshots: a wait ends the streak
RECURSIVE SnapshotsUpToWait(_)
SnapshotsUpToWait(recent) ==
    IF recent = <<>> THEN 0
    ELSE IF recent[Len(recent)].action = "snapshot"
    THEN 1 + SnapshotsUpToWait(SubSeq(recent, 1, Len(recent) - 1))
    ELSE 0

\* pattern 3: snapshots counted from the end of the window, waits skipped,
\* up to the first other action
RECURSIVE ConsecutiveSnapshots(_)
ConsecutiveSnapshots(recent) ==
    IF recent = <<>> THEN 0
    ELSE IF recent[Len(recent)].action = "snapshot"
    THEN 1 + ConsecutiveSnapshots(SubSeq(recent, 1, Len(recent) - 1))
    ELSE IF recent[Len(recent)].action = "wait"
    THEN ConsecutiveSnapshots(SubSeq(recent, 1, Len(recent) - 1))
    ELSE 0

\* pattern 4: occurrences of snapshot, wait, snapshot in the last six names
SnapshotWaitCount(recent) ==
    LET last6 == Slice(recent, 6) IN
    Cardinality({ i \in 1..(Len(last6) - 2) :
                    /\ last6[i].action = "snapshot"
                    /\ last6[i + 1].action = "wait"
                    /\ last6[i + 2].action = "snapshot" })

\* the checks of detectLoop in their order, on the last ten keys
DetectLoopWith(productive, recent, urls, observation) ==
    LET Count(name) == Cardinality({ i \in DOMAIN recent : recent[i].action = name })
        KeyCount(key) == Cardinality({ i \in DOMAIN recent : recent[i] = key })
        Keys(name) == { key \in Range(recent) : key.action = name }
        First(name) == CHOOSE i \in DOMAIN recent :
                          /\ recent[i].action = name
                          /\ \A j \in 1..(i - 1) : recent[j].action # name
        differentArgs == { name \in { key.action : key \in Range(recent) } :
                             /\ Count(name) > 3
                             /\ name # "wait"
                             /\ Cardinality(Keys(name)) > 1 }
        recent4 == Slice(urls, 4)
    IN
    IF differentArgs # {}
    THEN LET name == CHOOSE n \in differentArgs :
                        \A m \in differentArgs : First(n) <= First(m)
         IN LoopVerdict(TRUE, "sameActionDifferentArgs", IF productive THEN 50 ELSE 90,
                        Count(name), productive, FALSE)
    ELSE IF /\ Len(urls) >= 4
            /\ Cardinality(Range(recent4)) = 2
            /\ recent4[3] = recent4[1]
            /\ recent4[4] = recent4[2]
    THEN LoopVerdict(TRUE, "pageNavigation", 95, 0, FALSE, FALSE)
    ELSE IF ConsecutiveSnapshots(recent) >= 3
    THEN LoopVerdict(TRUE, "consecutiveSnapshots", IF productive THEN 60 ELSE 85,
                     ConsecutiveSnapshots(recent), productive, FALSE)
    ELSE IF SnapshotWaitCount(recent) >= 2
    THEN LoopVerdict(TRUE, "snapshotWaitPattern", IF productive THEN 50 ELSE 80,
                     SnapshotWaitCount(recent), productive, FALSE)
    ELSE IF \E key \in Range(recent) : KeyCount(key) >= 3
    THEN LoopVerdict(TRUE, "legacy", 100, 0, FALSE, FALSE)
    ELSE IF Count("getUrl") >= 2
    THEN LoopVerdict(TRUE, "legacy", 90, 0, FALSE, FALSE)
    ELSE IF Count("snapshot") >= 5
    THEN LoopVerdict(TRUE, "legacy", 85, 0, productive, FALSE)
    ELSE IF Count("wait") >= 4
    THEN LoopVerdict(TRUE, "legacy", 70, 0, productive, FALSE)
    ELSE NotDetected(observation = "videoOpened")

\* Faulty variant of VerdictOnLogs: the navigation history is read for a
\* navigate call only
VerdictReadingHistoryOnNavigate(log, urls, key, env) ==
    DetectLoopWith(IsProductive(key, urls, env), Slice(log, RecentWindow),
                   IF key.action = "navigate" THEN urls ELSE <<>>, env.observation)

\* Faulty variant of VerdictOnLogs: a productive iteration is never reported
VerdictTrustingProductive(log, urls, key, env) ==
    IF IsProductive(key, urls, env) THEN NotDetected(FALSE)
    ELSE DetectLoopWith(FALSE, Slice(log, RecentWindow), urls, env.observation)

\* what detectLoop returns once the key and the URL are in the logs
VerdictOnLogs(log, urls, key, env) ==
    DetectLoopWith(IsProductive(key, urls, env), Slice(log, RecentWindow), urls,
                   env.observation)

\* detectLoop(action, args, observation)
DetectLoop(log, urls, key, env) ==
    VerdictOnLogs(LogAfter(log, key), NavigationAfter(urls, key), key, env)

\* the detected flags detectLoop sets in loopDetectionState
DetectedAfter(state, res) ==
    [exists |-> TRUE,
     detected |-> state.detected
                  \cup (IF res.detected /\ res.pattern # "legacy"
                        THEN {res.pattern} ELSE {})]

MaxLoopCalls == 11     \* detectLoop calls on one agent
MaxOtherCalls == 4     \* of them calls for an action other than wait

LoopCalls ==
    { Key("navigate", "A"), Key("navigate", "B"), Key("snapshot", "{}"),
      Key("wait", "{}") }

Env(observation, differ, completed) ==
    [observation |-> observation, observationsDiffer |-> differ,
     subGoalCompleted |-> completed]

\* no productive signal, and each signal on its own
Envs ==
    { Env("plain", FALSE, FALSE), Env("loaded", FALSE, FALSE),
      Env("videoOpened", FALSE, FALSE), Env("plain", TRUE, FALSE),
      Env("plain", FALSE, TRUE) }

OtherCalls(log) == Cardinality({ i \in DOMAIN log : log[i].action # "wait" })

NoCalls == <<[n |-> 0, result |-> NotDetected(FALSE)]>>

InitLoop ==
    /\ pc = "idle"
    /\ runNo = 0
    /\ plannerLoaded = TRUE
    /\ stopped = FALSE
    /\ stepCount = 0
    /\ maxSteps = ConfigMaxSteps
    /\ history = 0
    /\ lastActions = <<>>
    /\ navigationHistory = <<>>
    /\ lastObservations = 0
    /\ lastObservation = {}
    /\ progressTracker = NoTracker
    /\ executionOptimizer = NewExecutionOptimizer
    /\ loopDetectionState = NoLoopDetectionState
    /\ loopDetectionCount = NoLoopDetectionCount
    /\ parsed = NoAction
    /\ runResult = NoResult
    /\ calls = NoCalls
    /\ plan = NoPlan

DetectLoopCall ==
    /\ calls[1].n < MaxLoopCalls
    /\ \E key \in LoopCalls, env \in Envs :
         /\ key.action # "wait" => OtherCalls(lastActions) < MaxOtherCalls
         /\ LET res == DetectLoop(lastActions, navigationHistory, key, env) IN
              /\ lastActions' = LogAfter(lastActions, key)
              /\ navigationHistory' = NavigationAfter(navigationHistory, key)
              /\ loopDetectionState' = DetectedAfter(loopDetectionState, res)
              /\ calls' = <<[n |-> calls[1].n + 1, result |-> res]>>
    /\ UNCHANGED nonLoopVars

NextLoop == DetectLoopCall

SpecLoop == InitLoop /\ [][NextLoop]_vars

(***************************************************************************)
(* The rolling logs of one run, entry by entry: lastActions and            *)
(* navigationHistory written by detectLoop, lastObservations written by    *)
(* run(), actionHistory written by ExecutionOptimizer.recordAction.  Here  *)
(* lastActions and lastObservations are the lists themselves, the          *)
(* optimizer has its whole state, and calls counts the iterations that     *)
(* were not a plain navigate.                                              *)
(***************************************************************************)
MaxLogSteps == 22      \* iterations of the run
MaxOtherSteps == 3     \* of them iterations other than a logged navigate

\* new BrowserAgent(config), run() entered
InitLogs ==
    /\ pc = "idle"
    /\ runNo = 0
    /\ plannerLoaded = TRUE
    /\ stopped = FALSE
    /\ stepCount = 0
    /\ maxSteps = ConfigMaxSteps
    /\ history = 0
    /\ lastActions = <<>>
    /\ navigationHistory = <<>>
    /\ lastObservations = <<>>
    /\ lastObservation = {}
    /\ progressTracker = NoTracker
    /\ executionOptimizer = NewOptimizerState
    /\ loopDetectionState = NoLoopDetectionState
    /\ loopDetectionCount = NoLoopDetectionCount
    /\ parsed = NoAction
    /\ runResult = NoResult
    /\ calls = 0
    /\ plan = NoPlan

\* one iteration of run(): executeAction records a validated action in the
\* optimizer, run() appends the observation, and detectLoop, unless the
\* iteration ends in the stuck skip, appends the key and a navigate's URL
LogIteration ==
    /\ stepCount < MaxLogSteps
    /\ \E action \in {"navigate", "getUrl", "click"}, stuck \in BOOLEAN :
         LET blocked == ~ValidateAction(executionOptimizer, action)
             key == Key(action, IF action = "navigate" THEN "A" ELSE "{}")
             other == action # "navigate" \/ stuck
         IN
         /\ other => calls < MaxOtherSteps
         /\ calls' = IF other THEN calls + 1 ELSE calls
         /\ stepCount' = stepCount + 1
         /\ executionOptimizer' =
              IF blocked THEN executionOptimizer
              ELSE RecordActionWithHistory(executionOptimizer, action)
         /\ lastObservations' =
              Push(lastObservations,
                   ObservationBase(action, IF blocked THEN ValidationFailedResult
                                           ELSE OkResult),
                   MaxLastObservations)
         /\ lastActions' = IF stuck THEN lastActions ELSE LogAfter(lastActions, key)
         /\ navigationHistory' =
              IF stuck THEN navigationHistory
              ELSE NavigationAfter(navigationHistory, key)
    /\ UNCHANGED <<pc, runNo, plannerLoaded, stopped, maxSteps, history,
                   lastObservation, progressTracker, loopDetectionState,
                   loopDetectionCount, parsed, runResult, plan>>

SpecLogs == InitLogs /\ [][LogIteration]_vars

(***************************************************************************)
(* ContentExtractor.summarize(content, maxLength), by lengths.  A content  *)
(* is a first paragraph, a middle made of copies of one sentence (followed *)
(* by a fragment too short to count as a sentence) and a last paragraph,   *)
(* separated by blank lines; first, last and sentence are their lengths.   *)
(* plan holds the content, then the content and the length of the result.  *)
(***************************************************************************)
SummarizeMaxLength == 1000   \* the maxLength run() passes
MaxCopies == 12              \* occurrences of the sentence in the middle

Contents ==
    { [first |-> f, last |-> l, sentence |-> s, copies |-> n] :
        f \in {6, 300, 700}, l \in {4, 200, 700}, s \in {30, 100, 400},
        n \in 0..MaxCopies }

\* content.length: the paragraphs, two blank lines, the sentences with ". "
\* after each, the fragment "Ok."
ContentLength(c) == c.first + 2 + c.copies * (c.sentence + 2) + 3 + 2 + c.last

\* the length of _extractKeySentences(middle, maxLength).  All sentences
\* score the same; the first is selected if it fits and the others are
\* redundant with it; every sentence whose text is selected is returned,
\* joined by ". " and closed by "."
KeySentencesLength(c, maxLength) ==
    IF c.copies = 0 \/ maxLength < 50 \/ c.sentence <= 20 THEN 0
    ELSE IF c.sentence + 2 > maxLength THEN 0
    ELSE c.copies * c.sentence + (c.copies - 1) * Len(". ") + Len(".")

\* the length of summarize(content, maxLength) for a content that is a
\* non-empty string
SummaryLength(c, maxLength) ==
    IF ContentLength(c) <= maxLength THEN ContentLength(c)
    ELSE
    LET remainingSpace == maxLength - (c.first + c.last + 40) IN
    IF remainingSpace < 100
    THEN LET halfSpace == (maxLength - 30) \div 2
             truncatedFirst == IF c.first < halfSpace THEN c.first ELSE halfSpace
             truncatedLast == IF c.last < halfSpace THEN c.last ELSE halfSpace
             result == truncatedFirst + Len("...\n\n[Content summarized]\n\n...")
                       + truncatedLast
         IN IF result > maxLength
            THEN (maxLength - 20) + Len("\n[Content truncated]")
            ELSE result
    ELSE LET keySentences == KeySentencesLength(c, remainingSpace)
             result == c.first
                       + (IF keySentences > 0
                          THEN Len("\n\n[Key points from content]\n") + keySentences
                          ELSE 0)
                       + (IF c.last > 0 THEN Len("\n\n") + c.last ELSE 0)
         IN IF result > maxLength
            THEN (maxLength - 20) + Len("\n\n[Content truncated]")
            ELSE result

InitSummarize ==
    /\ pc = "idle"
    /\ runNo = 0
    /\ plannerLoaded = TRUE
    /\ stopped = FALSE
    /\ stepCount = 0
    /\ maxSteps = ConfigMaxSteps
    /\ history = 0
    /\ lastActions = 0
    /\ navigationHistory = <<>>
    /\ lastObservations = 0
    /\ lastObservation = {}
    /\ progressTracker = NoTracker
    /\ executionOptimizer = NewExecutionOptimizer
    /\ loopDetectionState = NoLoopDetectionState
    /\ loopDetectionCount = NoLoopDetectionCount
    /\ parsed = NoAction
    /\ runResult = NoResult
    /\ calls = <<>>
    /\ \E c \in Contents : plan = [kind |-> "content", content |-> c]

\* result.text = ContentExtractor.summarize(result.text, 1000)
Summarize ==
    /\ plan.kind = "content"
    /\ plan' = [kind |-> "summarized", content |-> plan.content,
                length |-> SummaryLength(plan.content, SummarizeMaxLength)]
    /\ calls' = Append(calls, "summarize")
    /\ UNCHANGED nonPlannerVars

SpecSummarize == InitSummarize /\ [][Summarize]_vars

(***************************************************************************)
(* run() with every await of sendTaskStatus, executeAction, handleNavigate *)
(* and sendMessageToContent a position of its own.  calls is the log of    *)
(* the external requests issued since the iteration's LLM call returned    *)
(* (before the first one: since run() was called): what was asked, whether *)
(* stop() had been called when it was issued, and whether it has           *)
(* completed.  The LLM request is outstanding exactly while pc = "llm".    *)
(* pc = "status" and pc = "exec" are the points where the initial          *)
(* sendTaskStatus and executeAction have settled and run() continues in    *)
(* the same turn.  No TaskPlanner is loaded.  One ping stands for the up   *)
(* to five of ensureContentScriptReady, one content message for the up to  *)
(* three tries, and the timers of the polling loops are one step.          *)
(***************************************************************************)
execFrame ==
    <<runNo, plannerLoaded, navigationHistory, stopped, stepCount, maxSteps, history,
      lastActions, lastObservations, lastObservation, progressTracker,
      executionOptimizer, loopDetectionState, loopDetectionCount, parsed, runResult, plan>>

\* a request is one of chrome.tabs.query ("tabsQuery"), chrome.tabs.sendMessage
\* ("statusMessage", "ping", "contentMessage"), chrome.scripting.executeScript,
\* chrome.tabs.update ("tabsUpdate") and onAskUser
Issue(log, request) ==
    Append(log, [request |-> request, stopped |-> stopped, done |-> FALSE])

\* Faulty variant of Complete: the request is not awaited
LeavePending(log) == log

\* the awaited request has settled
Complete(log) ==
    IF log = <<>> THEN log ELSE [log EXCEPT ![Len(log)].done = TRUE]

\* the actions the LLM chooses in SpecExec
ExecResponses ==
    { [action |-> a, url |-> "none"] : a \in {"getUrl", "wait", "askUser", "finished", "unknown"} }
    \cup { [action |-> "navigate", url |-> u] : u \in {"string", "nonString"} }

\* run(userTask) up to chrome.tabs.query of the initial sendTaskStatus
RunExec ==
    /\ pc = "idle"
    /\ runNo < MaxRuns
    /\ runNo' = runNo + 1
    /\ pc' = "startQuery"
    /\ stopped' = FALSE
    /\ stepCount' = 0
    /\ history' = 0
    /\ lastActions' = 0
    /\ lastObservation' = {}
    /\ parsed' = NoAction
    /\ runResult' = NoResult
    /\ calls' = Append(<<>>, [request |-> "tabsQuery", stopped |-> FALSE, done |-> FALSE])
    /\ UNCHANGED <<plannerLoaded, navigationHistory, maxSteps, lastObservations,
                   progressTracker, executionOptimizer, loopDetectionState,
                   loopDetectionCount, plan>>

\* stop() arrives while a request or a timer is awaited
StopExec == pc \notin {"status", "exec"} /\ Stop

\* executeAction after the switch: recordAction, then sendTaskStatus
\* 'Complete' or 'Failed'
AfterAction(log) ==
    /\ pc' = "afterQuery"
    /\ calls' = Issue(log, "tabsQuery")

\* executeAction from the switch on, once sendTaskStatus 'In progress' has
\* settled
EnterSwitch(log) ==
    CASE parsed.action = "navigate" ->
           IF RaisesTypeError(parsed)
           THEN pc' = "exec" /\ calls' = log
           ELSE pc' = "navigateQuery" /\ calls' = Issue(log, "tabsQuery")
      [] parsed.action = "getUrl" ->
           IF stopped THEN AfterAction(log)
           ELSE pc' = "contentQuery" /\ calls' = Issue(log, "tabsQuery")
      [] parsed.action = "wait" ->
           IF stopped THEN pc' = "exec" /\ calls' = log
           ELSE pc' = "waitTimer" /\ calls' = log
      [] parsed.action = "askUser" -> pc' = "askUser" /\ calls' = Issue(log, "askUser")
      [] parsed.action = "finished" -> pc' = "exec" /\ calls' = log
      [] OTHER -> AfterAction(log)

\* sendTaskStatus, called at the start of run() and before and after the
\* switch of executeAction: chrome.tabs.query resolves with or without a tab
\* (or throws), then the updateTaskStatus message settles; the caller goes on
SendTaskStatusStep ==
    /\ \E at \in {"start", "before", "after"} :
         LET AfterStatus(log) ==
                 CASE at = "start" -> pc' = "status" /\ calls' = log
                   [] at = "before" -> EnterSwitch(log)
                   [] at = "after" -> pc' = "exec" /\ calls' = log
         IN \/ /\ pc = CASE at = "start" -> "startQuery"
                        [] at = "before" -> "beforeQuery"
                        [] at = "after" -> "afterQuery"
               /\ \E tab \in BOOLEAN :
                    IF tab
                    THEN /\ pc' = CASE at = "start" -> "startMessage"
                                    [] at = "before" -> "beforeMessage"
                                    [] at = "after" -> "afterMessage"
                         /\ calls' = Issue(Complete(calls), "statusMessage")
                    ELSE AfterStatus(Complete(calls))
            \/ /\ pc = CASE at = "start" -> "startMessage"
                        [] at = "before" -> "beforeMessage"
                        [] at = "after" -> "afterMessage"
               /\ AfterStatus(Complete(calls))
    /\ UNCHANGED execFrame

\* callLLM resolves; executeAction runs up to its first await: a blocked
\* action returns at once, the others send the 'In progress' status
LLMReturnsExec ==
    /\ pc = "llm"
    /\ IF stopped
       THEN /\ Return("stopped", "stopped", history)
            /\ UNCHANGED <<history, calls>>
       ELSE /\ \E p \in ExecResponses :
                 /\ parsed' = p
                 /\ IF ValidateAction(executionOptimizer, p.action)
                    THEN /\ pc' = "beforeQuery"
                         /\ calls' = Issue(<<>>, "tabsQuery")
                    ELSE /\ pc' = "exec"
                         /\ calls' = <<>>
            /\ history' = history + 1
            /\ runResult' = runResult
    /\ UNCHANGED <<runNo, plannerLoaded, navigationHistory, stopped, stepCount, maxSteps,
                   lastActions, lastObservations, lastObservation, progressTracker,
                   executionOptimizer, loopDetectionState, loopDetectionCount, plan>>

\* sendMessageToContent after its stopped check: chrome.tabs.query resolves,
\* ensureContentScriptReady resolves, chrome.scripting.executeScript settles
\* when the content script was not ready, the action's message settles
SendMessageToContentStep ==
    /\ \/ /\ pc = "contentQuery"
          /\ \E tab \in BOOLEAN :
               IF tab
               THEN pc' = "contentPing" /\ calls' = Issue(Complete(calls), "ping")
               ELSE AfterAction(Complete(calls))
       \/ /\ pc = "contentPing"
          /\ \E isReady \in BOOLEAN :
               IF isReady
               THEN pc' = "contentMessage" /\ calls' = Issue(Complete(calls), "contentMessage")
               ELSE pc' = "contentInject" /\ calls' = Issue(Complete(calls), "executeScript")
       \/ /\ pc = "contentInject"
          /\ \E injected \in BOOLEAN :
               IF injected
               THEN pc' = "contentMessage" /\ calls' = Issue(Complete(calls), "contentMessage")
               ELSE AfterAction(Complete(calls))
       \/ /\ pc = "contentMessage"
          /\ AfterAction(Complete(calls))
    /\ UNCHANGED execFrame

\* handleNavigate: chrome.tabs.query resolves and, with a tab, chrome.tabs.update
\* is called; the update resolves and the settle loop starts; the settle loop
\* ends, by its count or by the stopped flag
HandleNavigateStep ==
    /\ \/ /\ pc = "navigateQuery"
          /\ \E tab \in BOOLEAN :
               IF tab
               THEN pc' = "navigateUpdate" /\ calls' = Issue(Complete(calls), "tabsUpdate")
               ELSE AfterAction(Complete(calls))
       \/ /\ pc = "navigateUpdate"
          /\ IF stopped
             THEN AfterAction(Complete(calls))
             ELSE pc' = "navigateTimer" /\ calls' = Complete(calls)
       \/ /\ pc = "navigateTimer"
          /\ AfterAction(calls)
    /\ UNCHANGED execFrame

\* wait: the polling loop ends; after a stop() executeAction returns from it
WaitTimerEnds ==
    /\ pc = "waitTimer"
    /\ IF stopped
       THEN pc' = "exec" /\ calls' = calls
       ELSE AfterAction(calls)
    /\ UNCHANGED execFrame

\* onAskUser resolves
AskUserReturns ==
    /\ pc = "askUser"
    /\ AfterAction(Complete(calls))
    /\ UNCHANGED execFrame

NextExec ==
    \/ RunExec
    \/ StopExec
    \/ SendTaskStatusStep
    \/ StatusReturns
    \/ LLMReturnsExec
    \/ LLMFails
    \/ SendMessageToContentStep
    \/ HandleNavigateStep
    \/ WaitTimerEnds
    \/ AskUserReturns
    \/ ExecThrows
    \/ ExecStopped
    \/ ExecFinished
    \/ ExecReturns

InitExec == Init /\ ~plannerLoaded

SpecExec == InitExec /\ [][NextExec]_vars

(***************************************************************************)
(* The agent re-used after a stopped run that had planned a long task: the *)
(* user stops runs only during the initial status send, the tasks are a    *)
(* sequence of LongPlanGoals steps or a single-step task, the LLM answers  *)
(* with actions the agent does not know, and the legacy loop key is        *)
(* explored.                                                               *)
(***************************************************************************)
LongPlanOutcomes ==
    { [kind |-> "plan", subGoals |-> sg, stepBudget |-> CalculateStepBudget(TRUE, sg)] :
        sg \in {<<>>, GenericGoals(LongPlanGoals)} }

InitLongPlan == Init /\ plannerLoaded

StopDuringStatus == pc = "status" /\ Stop

StatusReturnsLongPlan == StatusReturnsWith(LongPlanOutcomes)

LLMReturnsUnknown == LLMReturnsWith({[action |-> "unknown", url |-> "none"]})

ExecReturnsLegacy == ExecReturnsWith({"legacy"})

NextLongPlan ==
    \/ Run
    \/ StopDuringStatus
    \/ StatusReturnsLongPlan
    \/ LLMReturnsUnknown
    \/ ExecReturnsLegacy

SpecLongPlan == InitLongPlan /\ [][NextLongPlan]_vars

(***************************************************************************)
(* Runs in which the LLM keeps answering with one click on one element:    *)
(* the click fails or succeeds, its action key repeats in the log, and the *)
(* legacy loop key is explored.                                            *)
(***************************************************************************)
LLMReturnsClick == LLMReturnsWith({[action |-> "click", url |-> "none"]})

NextRepeatedClick ==
    \/ Run
    \/ StatusReturns
    \/ LLMReturnsClick
    \/ ExecReturnsLegacy

SpecRepeatedClick == InitLongPlan /\ [][NextRepeatedClick]_vars

(***************************************************************************)
(* Properties                                                              *)
(***************************************************************************)
Cursor == progressTracker.currentSubGoalIndex
NumSubGoals == Len(progressTracker.subGoals)
RunEnded == pc = "idle" /\ runNo > 0

\* C1: every run() returns exactly one of the success, stopped, incomplete
\* ('Max steps reached without completion') or error results, and the result
\* carries the history.  Refuted: navigate with a url that is no string makes
\* run() reject with a TypeError.
C1_RunReturnsResult ==
    RunEnded =>
        /\ runResult.kind \in {"success", "stopped", "incomplete", "error"}
        /\ runResult.history = history

\* C2: within one run() stepCount never decreases, and stepCount <= maxSteps
\* in every state of the step loop.
C2_StepCountBounded ==
    /\ [](pc \in {"llm", "exec"} => stepCount <= maxSteps)
    /\ [][runNo' = runNo => stepCount' >= stepCount]_vars

\* the budget of a plan is used up: the last permitted step is in flight
C2_Witness == pc = "exec" /\ stepCount = maxSteps /\ stepCount > ConfigMaxSteps

\* C3: under any sequence of completeCurrentSubGoal, skipCurrentSubGoal and
\* recordStep calls the cursor never decreases and never exceeds the number of
\* sub-goals; isComplete() is false below it, true at it, and stays true.
C3_CursorMonotone ==
    /\ [](Cursor <= NumSubGoals /\ (IsComplete(progressTracker) <=> Cursor = NumSubGoals))
    /\ [][/\ Cursor' >= Cursor
          /\ IsComplete(progressTracker) => IsComplete(progressTracker')]_vars

\* three sub-goals, all passed, by completion and by skip, with steps recorded
C3_Witness ==
    /\ NumSubGoals = MaxTrackerGoals
    /\ IsComplete(progressTracker)
    /\ \E i, j \in 1..NumSubGoals :
         /\ progressTracker.subGoals[i].completed
         /\ progressTracker.subGoals[j].skipped
         /\ calls[i] > 0

\* C4: when isComplete() becomes true during a run and stop() has not been
\* requested, the run returns the success result 'All sub-goals completed' at
\* the next isComplete check, before any further LLM call.  Refuted on an
\* agent whose stale tracker (C10) outlasts the new run's step budget.
C4_CompleteMeansSuccess ==
    [][(/\ pc = "exec"
        /\ ~stopped
        /\ progressTracker.exists
        /\ ~IsComplete(progressTracker)
        /\ IsComplete(progressTracker')) =>
           /\ pc' = "idle"
           /\ runResult'.kind = "success"
           /\ runResult'.reason = "allSubGoals"]_vars

\* C5: a stop() that arrives while run() is suspended at an await makes run()
\* return the stopped result.  Refuted through the TypeError of C1: the run
\* rejects although stop() was requested.
C5_StopYieldsStopped == (RunEnded /\ stopped) => runResult.kind = "stopped"

\* sub-goals of the tracker that a loop of key k force-skipped
LoopSkips(t, k) == Cardinality({i \in 1..Len(t.subGoals) : t.subGoals[i].skipReason = k})

\* C6: the loop-forced skips of a key never exceed floor(counted detections
\* of the key / 3): one skip per three detections.  Refuted: the count is
\* not reset by a skip, so the 4th detection skips again.
C6_OneSkipPerThree ==
    \A k \in LoopKeys :
        LoopSkips(progressTracker, k) <= loopDetectionCount[k] \div 3

C8_StuckAfterNine ==
    HasCurrentSubGoal(progressTracker) =>
        (IsStuck(progressTracker) <=> calls[Cursor + 1] >= StuckThreshold + 1)

\* the second sub-goal is stuck after 9 calls while the first one had fewer
C8_Witness ==
    /\ Cursor = 1
    /\ HasCurrentSubGoal(progressTracker)
    /\ calls[2] = StuckThreshold + 1
    /\ calls[1] = 2
    /\ IsStuck(progressTracker)

\* C9: completed and skipped are never both set for one sub-goal, and neither
\* the tracker nor the control loop unsets a flag once set (planning, which
\* replaces the tracker object, aside).
C9_FlagsExclusive ==
    /\ [](\A i \in 1..NumSubGoals :
            ~(progressTracker.subGoals[i].completed /\ progressTracker.subGoals[i].skipped))
    /\ [][pc # "status" =>
            /\ Len(progressTracker'.subGoals) = NumSubGoals
            /\ \A i \in 1..NumSubGoals :
                 /\ progressTracker.subGoals[i].completed => progressTracker'.subGoals[i].completed
                 /\ progressTracker.subGoals[i].skipped => progressTracker'.subGoals[i].skipped]_vars

\* a run passed one sub-goal by completion and the other by a stuck skip
C9_Witness ==
    /\ RunEnded
    /\ \E i, j \in 1..NumSubGoals :
         /\ progressTracker.subGoals[i].completed
         /\ progressTracker.subGoals[j].skipped
         /\ progressTracker.subGoals[j].skipReason = "stuck"

\* C10: at the start of every run(), a second run on the same agent included,
\* all run state is fresh: stepCount 0, empty history, action-key log and
\* last-observations, zero loop-detection and escalation counters, zero
\* optimizer counters, and no ProgressTracker before the new plan makes one.
\* Refuted: run() resets only stopped, stepCount, history and lastActions.
C10_FreshRunState ==
    pc = "status" =>
        /\ stepCount = 0
        /\ history = 0
        /\ lastActions = 0
        /\ lastObservations = 0
        /\ loopDetectionState = NoLoopDetectionState
        /\ loopDetectionCount = NoLoopDetectionCount
        /\ executionOptimizer = NewExecutionOptimizer
        /\ ~progressTracker.exists

\* C11: when callLLM fails and stop() has not been requested, run() returns
\* the error result with the error message and the history at once: no
\* further LLM call, no action executed, nothing else changed.
C11_LLMFailureAborts ==
    /\ [](runResult.reason = "llmError" => pc = "idle" /\ runResult.kind = "error")
    /\ [][(pc = "llm" /\ ~stopped /\ stopped' = stopped /\ pc' # "exec") =>
            /\ pc' = "idle"
            /\ runResult' = RunResult("error", "llmError", history)
            /\ UNCHANGED <<stepCount, history, lastActions, progressTracker,
                           executionOptimizer, loopDetectionCount>>]_vars

\* the LLM failed in the second iteration of a run, after one executed action
C11_Witness ==
    /\ pc = "idle"
    /\ runResult = RunResult("error", "llmError", 1)
    /\ stepCount = 2
    /\ ~stopped

\* C12: when analyzeTask throws or returns an invalid plan, the run enters
\* the step loop with no sub-goals, no ProgressTracker and maxSteps = 30.
\* Refuted: the catch block does not assign maxSteps.
C12_FallbackBudget ==
    (plan.kind = "fallback" /\ pc \in {"llm", "exec"}) =>
        /\ ~progressTracker.exists
        /\ plan.subGoals = <<>>
        /\ maxSteps = 30

\* C13: executing an action never ends the run with an error, whether the
\* action fails, is unknown or the browser call throws: the step ends at the
\* next LLM call, or the run ends for another reason (success, 'Max steps').
\* Refuted: the TypeError of handleNavigate leaves run() (see C1).
C13_ActionFailureNotFatal ==
    [][(pc = "exec" /\ ~stopped /\ pc' = "idle") =>
          runResult'.kind \in {"success", "incomplete"}]_vars

\* C14: a step whose action validateAction blocks does not end the run with
\* an error and its observation carries the optimizer's alternative, for a
\* blocked snapshot as for a blocked getUrl.  Refuted: the observation of a
\* blocked snapshot is 'Snapshot failed: <reason>'.
C14_BlockedCarriesAlternative ==
    [][(/\ pc = "exec"
        /\ ~stopped
        /\ pc' # "exec"
        /\ ~ValidateAction(executionOptimizer, parsed.action)) =>
           /\ "suggestion" \in lastObservation'
           /\ runResult'.kind \notin {"error", "exception"}]_vars

\* C19: every step whose action reached validation leaves the optimizer as
\* one recordAction call leaves it (steps that move to another sub-goal, and
\* so reset the optimizer, aside).  Refuted: a blocked action returns before
\* recordAction.
C19_RecordedOncePerStep ==
    [][(/\ pc = "exec"
        /\ ~stopped
        /\ pc' # "exec"
        /\ ~RaisesTypeError(parsed)
        /\ progressTracker'.currentSubGoalIndex = progressTracker.currentSubGoalIndex) =>
           executionOptimizer' = RecordAction(executionOptimizer, parsed.action)]_vars

\* snapshots recorded before call i+1 with no other action recorded after
\* them; with resets, a resetForSubGoal ends the streak as well
RECURSIVE SnapshotStreak(_, _, _)
SnapshotStreak(log, i, resets) ==
    IF i = 0 THEN 0
    ELSE IF log[i].op = "recordAction"
         THEN IF log[i].arg = "snapshot" THEN 1 + SnapshotStreak(log, i - 1, resets) ELSE 0
    ELSE IF log[i].op = "resetForSubGoal" /\ resets THEN 0
    ELSE SnapshotStreak(log, i - 1, resets)

IsValidation(e, action) == e.op = "validateAction" /\ e.arg = action

\* C15, as stated: validateAction rejects a snapshot exactly when two
\* snapshots have been recorded with no non-snapshot action recorded after
\* them.  Refuted by a resetForSubGoal after the two snapshots.
C15_SnapshotStreak ==
    \A i \in 1..Len(calls) :
        IsValidation(calls[i], "snapshot") =>
            (~calls[i].ret <=> SnapshotStreak(calls, i - 1, FALSE) >= 2)

\* C15, amended: validateAction rejects a snapshot exactly when two snapshots
\* have been recorded with neither a non-snapshot action recorded nor
\* resetForSubGoal called after them.
C15_SnapshotStreakSinceReset ==
    \A i \in 1..Len(calls) :
        IsValidation(calls[i], "snapshot") =>
            (~calls[i].ret <=> SnapshotStreak(calls, i - 1, TRUE) >= 2)

\* two snapshots recorded, the third rejected, a click recorded, the next accepted
C15_Witness ==
    /\ Len(calls) >= 5
    /\ calls[1] = Call("recordAction", "snapshot", 0, TRUE)
    /\ calls[2] = Call("recordAction", "snapshot", 0, TRUE)
    /\ calls[3] = Call("validateAction", "snapshot", 0, FALSE)
    /\ calls[4] = Call("recordAction", "click", 0, TRUE)
    /\ calls[5] = Call("validateAction", "snapshot", 0, TRUE)

\* whether a getUrl was recorded before call i+1 and after the last resetForSubGoal
RECURSIVE GetUrlSinceReset(_, _)
GetUrlSinceReset(log, i) ==
    IF i = 0 THEN FALSE
    ELSE IF log[i].op = "recordAction" /\ log[i].arg = "getUrl" THEN TRUE
    ELSE IF log[i].op = "resetForSubGoal" THEN FALSE
    ELSE GetUrlSinceReset(log, i - 1)

\* C16: validateAction('getUrl') is rejected exactly when a getUrl has been
\* recorded since the last resetForSubGoal, whatever else was recorded in
\* between; the first one after a reset is accepted.
C16_OneGetUrlPerSubGoal ==
    \A i \in 1..Len(calls) :
        IsValidation(calls[i], "getUrl") =>
            (~calls[i].ret <=> GetUrlSinceReset(calls, i - 1))

\* a getUrl and a click recorded, getUrl rejected, then accepted after a reset
C16_Witness ==
    /\ Len(calls) >= 6
    /\ calls[1] = Call("recordAction", "getUrl", 0, TRUE)
    /\ calls[2] = Call("recordAction", "click", 0, TRUE)
    /\ calls[3] = Call("validateAction", "getUrl", 0, FALSE)
    /\ calls[4].op = "resetForSubGoal"
    /\ calls[5] = Call("validateAction", "getUrl", 0, TRUE)
    /\ calls[6] = Call("recordAction", "getUrl", 0, TRUE)

\* C17: resetForSubGoal(id) zeroes consecutiveSnapshots and
\* getUrlCountPerSubGoal and clears the snapshot cache, and leaves
\* failureRetries and actionHistory as they were.
C17_ResetFrame ==
    [][(Len(calls') = Len(calls) + 1 /\ calls'[Len(calls')].op = "resetForSubGoal") =>
          /\ executionOptimizer'.consecutiveSnapshots = 0
          /\ executionOptimizer'.getUrlCountPerSubGoal = 0
          /\ ~executionOptimizer'.snapshotCache
          /\ executionOptimizer'.cacheSubGoalId = 0
          /\ executionOptimizer'.currentSubGoalId = calls'[Len(calls')].id
          /\ executionOptimizer'.failureRetries = executionOptimizer.failureRetries
          /\ executionOptimizer'.actionHistory = executionOptimizer.actionHistory]_vars

\* a reset has just cleared a streak, a getUrl count and a cached snapshot,
\* with a retry counted and three actions in the history
C17_Witness ==
    /\ Len(calls) = 6
    /\ calls[6].op = "resetForSubGoal"
    /\ \E i \in 1..5 : calls[i].op = "cacheSnapshot"
    /\ \E i \in 1..5 : calls[i].op = "canRetry"
    /\ calls[4] = Call("recordAction", "getUrl", 0, TRUE)
    /\ calls[5] = Call("recordAction", "snapshot", 0, TRUE)
    /\ Len(executionOptimizer.actionHistory) = 3
    /\ executionOptimizer.consecutiveSnapshots = 0

\* canRetry calls for key among the first i calls
RECURSIVE RetryCalls(_, _, _)
RetryCalls(log, i, key) ==
    IF i = 0 THEN 0
    ELSE RetryCalls(log, i - 1, key)
         + (IF log[i].op = "canRetry" /\ log[i].arg = key THEN 1 ELSE 0)

\* C18: for every key, canRetry returns true on exactly its first two calls
\* for that key and false afterwards, whatever is called for other keys and
\* whatever resetForSubGoal calls are made in between.
C18_TwoRetriesPerKey ==
    \A i \in 1..Len(calls) :
        calls[i].op = "canRetry" =>
            (calls[i].ret <=> RetryCalls(calls, i - 1, calls[i].arg) < 2)

\* the third call for one key is refused after a reset, the other key's first is allowed
C18_Witness ==
    /\ Len(calls) = 6
    /\ \E k1, k2 \in RetryKeys :
         /\ k1 # k2
         /\ calls[1] = Call("canRetry", k1, 0, TRUE)
         /\ calls[2] = Call("canRetry", k1, 0, TRUE)
         /\ calls[3].op = "resetForSubGoal"
         /\ calls[4] = Call("canRetry", k1, 0, FALSE)
         /\ calls[5] = Call("canRetry", k2, 0, TRUE)
         /\ calls[6] = Call("canRetry", k1, 0, FALSE)

\* C20: calculateStepBudget returns 30 for a missing list and for 0 or 1
\* sub-goals, 50 for 2 or 3, 80 for 4 or 5 and 50 for more, whatever the
\* sub-goals hold, and the same again on every further call on the list.
C20_BudgetByCount ==
    LET n == Len(plan.subGoals)
        budget == IF n \in {0, 1} THEN 30
                  ELSE IF n \in {2, 3} THEN 50
                  ELSE IF n \in {4, 5} THEN 80
                  ELSE 50
    IN \A i \in 1..Len(calls) : calls[i] = budget

\* a list of four was budgeted twice, the first call having rewritten its estimates
C20_Witness ==
    /\ Len(calls) >= 2
    /\ plan.kind = "plan"
    /\ Len(plan.subGoals) = 4
    /\ plan.stepBudget = 80
    /\ \E i \in 1..4 : plan.subGoals[i].estimatedSteps \notin InitialEstimates

\* C21: after calculateStepBudget on a list of 1 to 5 sub-goals the
\* estimatedSteps values sum exactly to the returned budget and each value
\* is at least 1.
C21_EstimatesSumToBudget ==
    (Len(calls) >= 1 /\ plan.kind = "plan" /\ Len(plan.subGoals) \in 1..5)
        => /\ SumEstimates(plan.subGoals) = plan.stepBudget
           /\ \A i \in 1..Len(plan.subGoals) : plan.subGoals[i].estimatedSteps >= 1

\* C22: after four consecutive detectLoop calls for navigate with URLs A, B,
\* A, B (A different from B) on a fresh agent, the fourth call reports
\* pattern pageNavigation with confidence 0.95 and productive = false,
\* whatever the observations are.
\* Refuted: the four navigate keys match pattern 1 first.
C22_AlternationIsPageNavigation ==
    \A a, b \in {"A", "B"} :
        (a # b /\ calls[1].n = 4
         /\ lastActions = << Key("navigate", a), Key("navigate", b),
                             Key("navigate", a), Key("navigate", b) >>)
        => /\ calls[1].result.pattern = "pageNavigation"
           /\ calls[1].result.confidence = 95
           /\ ~calls[1].result.productive

\* the snapshots at the end of a log, waits aside
SnapshotsAtEnd(log) ==
    LET others == { i \in DOMAIN log : log[i].action \notin {"snapshot", "wait"} }
        start == IF others = {} THEN 0
                 ELSE CHOOSE i \in others : \A j \in others : j <= i
    IN Cardinality({ i \in DOMAIN log : i > start /\ log[i].action = "snapshot" })

\* C23 as stated: on any detectLoop call where the most recent actions,
\* waits aside, are three or more snapshots with identical args and no
\* earlier-priority pattern matches, the result is consecutiveSnapshots with
\* count equal to the streak length, confidence 0.85 without a productive
\* signal and 0.6 with one.
C23_SnapshotStreakReported ==
    (/\ calls[1].n >= 1
     /\ SnapshotsAtEnd(lastActions) >= 3
     /\ calls[1].result.pattern \notin {"sameActionDifferentArgs", "pageNavigation"})
    => /\ calls[1].result.pattern = "consecutiveSnapshots"
       /\ calls[1].result.count = SnapshotsAtEnd(lastActions)
       /\ calls[1].result.confidence = IF calls[1].result.productive THEN 60 ELSE 85

\* C23, amended: the streak is the one within the last ten action keys.
C23_SnapshotStreakInWindow ==
    (/\ calls[1].n >= 1
     /\ SnapshotsAtEnd(Slice(lastActions, RecentWindow)) >= 3
     /\ calls[1].result.pattern \notin {"sameActionDifferentArgs", "pageNavigation"})
    => /\ calls[1].result.pattern = "consecutiveSnapshots"
       /\ calls[1].result.count = SnapshotsAtEnd(Slice(lastActions, RecentWindow))
       /\ calls[1].result.confidence = IF calls[1].result.productive THEN 60 ELSE 85

\* snapshot, wait, snapshot, wait, snapshot with a productive signal: a
\* streak of three across the waits, reported with the lower confidence
C23_Witness ==
    /\ calls[1].n = 5
    /\ lastActions = << Key("snapshot", "{}"), Key("wait", "{}"), Key("snapshot", "{}"),
                        Key("wait", "{}"), Key("snapshot", "{}") >>
    /\ calls[1].result = LoopVerdict(TRUE, "consecutiveSnapshots", 60, 3, TRUE, FALSE)

\* C24 as stated: two fresh agents fed the same detectLoop(action, args)
\* calls return the same pattern and the same confidence at every call,
\* whatever the observations and the sub-goal completion state.  The second
\* agent has the logs of the first; its observation and completion state
\* range over all inputs.
C24_VerdictByLogOnly ==
    calls[1].n >= 1 =>
        \A env \in Envs :
            LET other == VerdictOnLogs(lastActions, navigationHistory,
                                       lastActions[Len(lastActions)], env)
            IN /\ other.pattern = calls[1].result.pattern
               /\ other.confidence = calls[1].result.confidence

\* C24, amended: the two agents return the same pattern at every call, and
\* the same confidence whenever their productive flags agree.
C24_PatternByLogOnly ==
    calls[1].n >= 1 =>
        \A env \in Envs :
            LET other == VerdictOnLogs(lastActions, navigationHistory,
                                       lastActions[Len(lastActions)], env)
            IN /\ other.pattern = calls[1].result.pattern
               /\ (other.productive = calls[1].result.productive
                     => other.confidence = calls[1].result.confidence)

\* three snapshots, the third call with a productive signal: an agent
\* without one reports the same pattern with confidence 0.85
C24_Witness ==
    /\ calls[1].n = 3
    /\ calls[1].result = LoopVerdict(TRUE, "consecutiveSnapshots", 60, 3, TRUE, FALSE)
    /\ \E env \in Envs :
         VerdictOnLogs(lastActions, navigationHistory, lastActions[3], env)
           = LoopVerdict(TRUE, "consecutiveSnapshots", 85, 3, FALSE, FALSE)

C26_NotMultiStepPlan ==
    (plan.kind = "analyzed" /\ ~IsMultiStep(plan.task))
        => /\ ~plan.result.raised
           /\ plan.result.subGoals = <<>>
           /\ plan.result.stepBudget = 30
           /\ (plan.task.kind # "text" => plan.result.category = "composite")

\* a value that is neither falsy nor a string was analyzed
C26_Witness ==
    /\ plan.kind = "analyzed"
    /\ plan.task.kind = "number"
    /\ ~plan.result.raised
    /\ plan.result.subGoals = <<>>
    /\ plan.result.stepBudget = 30
    /\ plan.result.category = "composite"

\* C27: within one run at most one external request (LLM call, browser
\* command or askUser) is outstanding at any time, and in every iteration
\* the LLM call completes before any browser command of that iteration is
\* issued: no request is issued on the way to the LLM call.
C27_OneOutstandingRequest ==
    /\ [](Cardinality({ i \in DOMAIN calls : ~calls[i].done })
            + (IF pc = "llm" THEN 1 ELSE 0) <= 1)
    /\ [][pc' = "llm" => calls' = calls]_vars

\* the tab update of the second iteration's navigate is awaited, everything
\* issued before it in the iteration has completed
C27_Witness ==
    /\ pc = "navigateUpdate"
    /\ stepCount = 2
    /\ Len(calls) >= 3
    /\ calls[Len(calls)].request = "tabsUpdate"
    /\ ~calls[Len(calls)].done
    /\ \A i \in 1..(Len(calls) - 1) : calls[i].done

\* C30: after stop() has been called during a run, the run issues no new LLM
\* request and no new browser command (content-script message or tab URL
\* update).
C30_NothingIssuedAfterStop ==
    /\ [](\A i \in DOMAIN calls :
            calls[i].request \in {"statusMessage", "ping", "contentMessage", "tabsUpdate"}
                => ~calls[i].stopped)
    /\ [][pc # "llm" /\ pc' = "llm" => ~stopped]_vars

\* C28: whenever the cursor moves to a new current sub-goal during a run, by
\* completion, by stuck-skip or by the loop-forced skip, resetForSubGoal has
\* been called: consecutiveSnapshots and getUrlCountPerSubGoal are 0 when the
\* next iteration starts.
C28_ResetOnEveryCursorMove ==
    [][(/\ pc = "exec"
        /\ pc' = "llm"
        /\ progressTracker.exists
        /\ progressTracker'.currentSubGoalIndex # Cursor
        /\ HasCurrentSubGoal(progressTracker'))
       => /\ executionOptimizer'.consecutiveSnapshots = 0
          /\ executionOptimizer'.getUrlCountPerSubGoal = 0]_vars

\* C29: in an iteration in which the current sub-goal is force-skipped for
\* being stuck, detectLoop is not invoked: the action-key log, the navigation
\* history, the loop-detection counters and the escalation counts are after
\* the iteration what they were when the LLM call returned.
C29_StuckSkipWithoutLoopDetection ==
    [][(/\ pc = "exec"
        /\ progressTracker.exists
        /\ HasCurrentSubGoal(progressTracker)
        /\ progressTracker'.subGoals[Cursor + 1].skipped
        /\ progressTracker'.subGoals[Cursor + 1].skipReason = "stuck")
       => /\ lastActions' = lastActions
          /\ navigationHistory' = navigationHistory
          /\ loopDetectionState' = loopDetectionState
          /\ loopDetectionCount' = loopDetectionCount]_vars

\* the run goes on after a stuck skip of the first sub-goal, with keys in the
\* log and a loop counted before the skip
C29_Witness ==
    /\ pc = "llm"
    /\ "stuck" \in lastObservation
    /\ Cursor = 1
    /\ progressTracker.subGoals[1].skipReason = "stuck"
    /\ lastActions > 0
    /\ TotalDetections(loopDetectionCount) > 0

\* C31: completeCurrentSubGoal and skipCurrentSubGoal called when there is no
\* current sub-goal (cursor at the terminal index) do not throw and still
\* advance the cursor.
C31_TerminalCallStillAdvances ==
    (NumSubGoals > 0 /\ IsComplete(progressTracker)) =>
        /\ CompleteCurrentSubGoal(progressTracker).currentSubGoalIndex = Cursor + 1
        /\ SkipCurrentSubGoal(progressTracker, "stuck").currentSubGoalIndex = Cursor + 1

\* C32: in the control loop every failed action execution is counted toward
\* the retry limit of its key action:JSON(args): when an execution of the
\* unknown action, which always fails, has returned, the optimizer's retry
\* count for its key has increased.
C32_FailureCountsTowardRetries ==
    [][(/\ pc = "exec"
        /\ ~stopped
        /\ parsed.action = "unknown")
       => LET key == "unknown:{}"
              Retries(o) == IF key \in DOMAIN o.failureRetries
                            THEN o.failureRetries[key] ELSE 0
          IN Retries(executionOptimizer') > Retries(executionOptimizer)]_vars

\* C33: isMultiStep(task) is true exactly when the lowercased task contains
\* one of the connectives then, after, next, followed by, or an extraction
\* keyword together with at least one action verb, or at least two distinct
\* action verbs; a task with a single action verb, no extraction keyword and
\* none of those four connectives is not multi-step.
C33_MultiStepExactlyWhen ==
    (plan.kind = "analyzed" /\ plan.task.kind = "text") =>
        LET task == plan.task
            connective == IncludesSome(task, {"then", "after", "next", "followed by"})
            extraction == IncludesSome(task, {"tell me", "what is", "find out", "show me",
                                              "extract", "get the"})
            verbs == { verb \in {"search", "find", "open", "click", "navigate", "go to",
                                 "extract", "get", "tell", "show"} : Includes(task, verb) }
        IN IsMultiStep(task)
             <=> \/ connective
                 \/ (extraction /\ Cardinality(verbs) >= 1)
                 \/ Cardinality(verbs) >= 2

\* C34: for every task for which isMultiStep is true, generateSubGoals
\* returns between 2 and 5 sub-goals, with ids 1..n in order and
\* completed = false on each.
C34_TwoToFiveSubGoals ==
    (plan.kind = "analyzed" /\ IsMultiStep(plan.task)) =>
        LET subGoals == plan.result.subGoals IN
        /\ Len(subGoals) >= 2
        /\ Len(subGoals) <= 5
        /\ \A i \in 1..Len(subGoals) : subGoals[i].id = i /\ ~subGoals[i].completed

\* C35: at every point of a run the rolling logs stay within their bounds:
\* the action-key log has at most 15 entries, the navigation-URL log at most
\* 10, the last-observations list at most 5 and the optimizer's action
\* history at most 20; when a log is full, appending drops its oldest entry.
C35_LogsBounded ==
    /\ [](/\ Len(lastActions) <= 15
          /\ Len(navigationHistory) <= 10
          /\ Len(lastObservations) <= 5
          /\ Len(executionOptimizer.actionHistory) <= 20)
    /\ [][LET Appended(old, new, cap) ==
                  new # old =>
                      /\ new # <<>>
                      /\ new = Append(IF Len(old) = cap THEN Tail(old) ELSE old,
                                      new[Len(new)])
          IN /\ Appended(lastActions, lastActions', 15)
             /\ Appended(navigationHistory, navigationHistory', 10)
             /\ Appended(lastObservations, lastObservations', 5)
             /\ Appended(executionOptimizer.actionHistory,
                         executionOptimizer'.actionHistory, 20)]_vars

\* all four logs are full and have dropped entries, with entries of two
\* kinds in each but the navigation log
C35_Witness ==
    /\ stepCount = MaxLogSteps
    /\ Len(lastActions) = 15
    /\ Len(navigationHistory) = 10
    /\ Len(lastObservations) = 5
    /\ Len(executionOptimizer.actionHistory) = 20
    /\ \E i \in 1..15 : lastActions[i].action # "navigate"
    /\ \E i \in 1..20 : executionOptimizer.actionHistory[i] # "navigate"
    /\ \E i \in 1..5 : lastObservations[i] = "actionBlocked"

\* C36: for every text longer than maxLength (1000 as used by the control
\* loop), ContentExtractor.summarize(text, maxLength) returns a string of
\* length at most maxLength, on every branch including the final hard
\* truncation.
C36_SummaryWithinMaxLength ==
    (plan.kind = "summarized" /\ ContentLength(plan.content) > SummarizeMaxLength)
        => plan.length <= SummarizeMaxLength

\* C37: in a run started on a freshly constructed agent whose plan has
\* N >= 1 sub-goals, every sub-goal receives at most 9 recorded steps, the
\* run is over by iteration 9*N+1, and the incomplete result 'Max steps
\* reached' is not returned.
C37_PlannedRunEndsByTracker ==
    (runNo = 1 /\ plan.kind = "plan" /\ Len(plan.subGoals) >= 1)
        => /\ progressTracker.exists
           /\ \A i \in 1..NumSubGoals : progressTracker.subGoalStepCounts[i] <= 9
           /\ stepCount <= 9 * NumSubGoals + 1
           /\ RunEnded => runResult.kind # "incomplete"

\* the first run on an agent ended at iteration 19 after both sub-goals of
\* its plan were skipped as stuck, with 9 steps recorded on each
C37_Witness ==
    /\ runNo = 1
    /\ RunEnded
    /\ plan.kind = "plan"
    /\ NumSubGoals = 2
    /\ stepCount = 19
    /\ \A i \in 1..2 : /\ progressTracker.subGoalStepCounts[i] = 9
                       /\ progressTracker.subGoals[i].skipReason = "stuck"
    /\ runResult.kind = "success"

\* C38: at every point of a run the sub-goals below currentSubGoalIndex are
\* exactly the sub-goals with completed or skipped set, and in every
\* 'All sub-goals completed' success result the summary satisfies
\* completed + skipped = total.
C38_PassedExactlyFlagged ==
    /\ progressTracker.exists =>
         \A i \in 1..NumSubGoals :
            (i <= Cursor) <=> (\/ progressTracker.subGoals[i].completed
                               \/ progressTracker.subGoals[i].skipped)
    /\ (RunEnded /\ runResult.reason = "allSubGoals") =>
         LET summary == GetSummary(progressTracker) IN
         summary.completed + summary.skipped = summary.total

\* a run returned 'All sub-goals completed' with a summary of one completed
\* and one skipped sub-goal out of two
C38_Witness ==
    /\ RunEnded
    /\ runResult.reason = "allSubGoals"
    /\ GetSummary(progressTracker) = [total |-> 2, completed |-> 1, skipped |-> 1]

\* C39: currentSubGoalIndex increases by at most one per loop iteration, and
\* a sub-goal is skipped only after at least one step was recorded on it.
\* Refuted: the escalation's third counted detection skips the sub-goal that
\* the same iteration's completion has just made current.
C39_OneSubGoalPerIteration ==
    [][pc = "exec" =>
        /\ Cursor' <= Cursor + 1
        /\ \A i \in 1..NumSubGoals :
             (progressTracker'.subGoals[i].skipped /\ ~progressTracker.subGoals[i].skipped)
                 => progressTracker'.subGoalStepCounts[i] >= 1]_vars

\* C40: the page-navigation check of detectLoop reads the stored navigation
\* history only: while its last four URLs are A, B, A, B, every detectLoop
\* call on which pattern 1 does not match reports pageNavigation, whatever
\* the action of the call.
C40_PageNavigationFromHistoryOnly ==
    LET recent4 == Slice(navigationHistory, 4)
        res == calls[1].result
    IN
    (/\ calls[1].n > 0
     /\ Len(navigationHistory) >= 4
     /\ recent4[1] # recent4[2]
     /\ recent4[3] = recent4[1]
     /\ recent4[4] = recent4[2]
     /\ res.pattern # "sameActionDifferentArgs")
        => /\ res.detected
           /\ res.pattern = "pageNavigation"
           /\ res.confidence = 95
           /\ ~res.productive

\* a detectLoop call for a wait, made after the four navigations A, B, A, B
\* have left only three navigate keys in the window, reports pageNavigation
C40_Witness ==
    /\ calls[1].n > 0
    /\ lastActions[Len(lastActions)].action = "wait"
    /\ Slice(navigationHistory, 4) = <<"A", "B", "A", "B">>
    /\ calls[1].result.pattern = "pageNavigation"

====
